---- MODULE Spec2Model ----
(***************************************************************************)
(* nocoflo: the metadata store's row-lock manager and permission model.    *)
(*                                                                         *)
(* The metadata store is one SQLite file (metadata.METADATA_DB).  Every    *)
(* function opens its own connection and commits its own statements, so    *)
(* the unit of atomicity is one SQL statement (plus its commit), not one   *)
(* Python function.                                                        *)
(*                                                                         *)
(* row_lock.locked_at is filled by its column default and read by no       *)
(* statement of the program, so the rows are modelled without it.          *)
(***************************************************************************)
EXTENDS Integers, Sequences, FiniteSets, TLC

\* ------------------------------------------------------------------ bounds
MaxRows == 3           \* rows of table row_lock
MaxPermRows == 2       \* rows of table permission
MaxLog == 2            \* rows of table changelog
MaxIn == 3             \* length of an `in` value list
MaxLimit == 2          \* largest limit and offset asked for
MaxData == 4           \* rows of the external table

UserIds == {1, 2, 3}   \* user.id of the registered users
TableIds == {1, 2}     \* table_meta.id of the registered tables
RowPks == {1, 2}       \* row_pk: primary-key values of the rows edited

VARIABLES
    row_lock,      \* table row_lock, in rowid order: <<[table_id, row_pk, locked_by]>>
    lock_call,     \* per session user: the lock_row call in progress, if any
    last,          \* the lock statement executed last: who, on what, and what the call returned
    permission,    \* table permission, in rowid order
    storage_user,  \* app.storage.user of one browser session
    perm_last,     \* the has_permission or revoke_permission call made last, and what it returned
    changelog,     \* table changelog, in rowid order
    audit_last,    \* the changelog call made last, and how it ended
    data,          \* the rows of the external table the datasource connection names
    call,          \* the datasource call: its arguments, its position, its outcome
    conn,          \* the datasource connection the calls are made on
    view           \* the table view page of the session: what render captured, the handler running

lock_vars == <<row_lock, lock_call, last>>
perm_vars == <<permission, storage_user, perm_last>>
audit_vars == <<changelog, audit_last>>
ds_vars == <<data, call, conn>>
view_vars == <<view>>
vars == <<row_lock, lock_call, last, permission, storage_user, perm_last,
          changelog, audit_last, data, call, conn, view>>

\* ------------------------------------------------------------ SQL helpers

\* SELECT ... WHERE table_id = ? AND row_pk = ?  (a table scan: rowid order)
SelectLocks(store, table_id, row_pk) ==
    SelectSeq(store, LAMBDA r: r.table_id = table_id /\ r.row_pk = row_pk)

\* Python's None where a user id is expected (user ids start at 1).
None == 0

\* cursor.fetchone(): the first row of the result, or None
FetchOne(result) ==
    IF Len(result) = 0 THEN None ELSE Head(result).locked_by

\* INSERT OR REPLACE INTO row_lock (table_id, row_pk, locked_by): the only
\* uniqueness constraint of row_lock is its INTEGER PRIMARY KEY id, which the
\* statement does not supply, so SQLite assigns max(rowid)+1, no conflict can
\* arise and nothing is ever replaced: the row is added after all others.
InsertOrReplace(store, row) ==
    Append(store, row)

\* A DELETE that forgets `AND locked_by = ?`.
DeleteLocksAnyHolder(store, table_id, row_pk, user) ==
    SelectSeq(store, LAMBDA r: ~(r.table_id = table_id /\ r.row_pk = row_pk))

\* DELETE FROM row_lock WHERE table_id = ? AND row_pk = ? AND locked_by = ?
DeleteLocks(store, table_id, row_pk, user) ==
    SelectSeq(store, LAMBDA r: ~(r.table_id = table_id /\ r.row_pk = row_pk
                                  /\ r.locked_by = user))

\* ------------------------------------------------------------------ state

IdleCall == [pc |-> "idle", table_id |-> 0, row_pk |-> 0]

NoOp == [op |-> "none", user |-> 0, table_id |-> 0, row_pk |-> 0, ret |-> "None"]

\* app.storage.user == {}: nobody is logged in.
EmptySession == [keys |-> <<>>, id |-> 0, role |-> ""]

NoPermOp == [op |-> "none", table_id |-> 0, user_id |-> 0, arg |-> "", ret |-> 0, raised |-> ""]

NoAuditOp == [op |-> "none", table_id |-> 0, ret |-> "None"]

\* no datasource call has been made
NoCall == [pc |-> "none"]

\* no datasource connection has been opened
NoConn == [plugin |-> "none"]

\* the table view page has not been rendered
NoView == [pc |-> "closed"]

PendingWrites == Cardinality({u \in UserIds : lock_call[u].pc = "write"})

Init ==
    /\ row_lock = <<>>
    /\ lock_call = [u \in UserIds |-> IdleCall]
    /\ last = NoOp
    /\ permission = <<>>
    /\ storage_user = EmptySession
    /\ perm_last = NoPermOp
    /\ changelog = <<>>
    /\ audit_last = NoAuditOp
    /\ data = <<>>
    /\ call = NoCall
    /\ conn = NoConn
    /\ view = NoView

\* ---------------------------------------------------------------- lock_row

\* `existing and existing[0] != app.storage.user['id']`
LockedBySomeoneElse(existing, user) ==
    existing # None /\ existing # user

\* lock_row, first statement: SELECT locked_by ...; fetchone(); the early
\* `return False`.  The store is left untouched.
LockRowCheck(user, table_id, row_pk) ==
    /\ lock_call[user].pc = "idle"
    /\ Len(row_lock) + PendingWrites < MaxRows
    /\ LET existing == FetchOne(SelectLocks(row_lock, table_id, row_pk))
       IN  IF LockedBySomeoneElse(existing, user)
           THEN /\ lock_call' = lock_call
                /\ last' = [op |-> "lock_row", user |-> user, table_id |-> table_id,
                            row_pk |-> row_pk, ret |-> "False"]
           ELSE /\ lock_call' = [lock_call EXCEPT ![user] =
                       [pc |-> "write", table_id |-> table_id, row_pk |-> row_pk]]
                /\ last' = [op |-> "lock_row_select", user |-> user, table_id |-> table_id,
                            row_pk |-> row_pk, ret |-> "None"]
    /\ UNCHANGED <<row_lock, perm_vars, audit_vars, ds_vars, view_vars>>

\* A lock_row whose write is conditional on the row still being free
\* (check and write as one atomic statement).
LockRowWriteRechecked(user) ==
    /\ lock_call[user].pc = "write"
    /\ LET t == lock_call[user].table_id
           k == lock_call[user].row_pk
           taken == LockedBySomeoneElse(FetchOne(SelectLocks(row_lock, t, k)), user)
       IN  /\ row_lock' = IF taken THEN row_lock
                          ELSE InsertOrReplace(row_lock,
                                   [table_id |-> t, row_pk |-> k, locked_by |-> user])
           /\ last' = [op |-> "lock_row", user |-> user, table_id |-> t, row_pk |-> k,
                       ret |-> IF taken THEN "False" ELSE "True"]
    /\ lock_call' = [lock_call EXCEPT ![user] = IdleCall]
    /\ UNCHANGED <<perm_vars, audit_vars, ds_vars, view_vars>>

\* lock_row, second statement: INSERT OR REPLACE ...; commit; `return True`.
LockRowWrite(user) ==
    /\ lock_call[user].pc = "write"
    /\ row_lock' = InsertOrReplace(row_lock,
                      [table_id |-> lock_call[user].table_id,
                       row_pk |-> lock_call[user].row_pk,
                       locked_by |-> user])
    /\ lock_call' = [lock_call EXCEPT ![user] = IdleCall]
    /\ last' = [op |-> "lock_row", user |-> user, table_id |-> lock_call[user].table_id,
                row_pk |-> lock_call[user].row_pk, ret |-> "True"]
    /\ UNCHANGED <<perm_vars, audit_vars, ds_vars, view_vars>>

\* unlock_row: one DELETE statement and its commit; returns None.
UnlockRow(user, table_id, row_pk) ==
    /\ lock_call[user].pc = "idle"
    /\ row_lock' = DeleteLocks(row_lock, table_id, row_pk, user)
    /\ last' = [op |-> "unlock_row", user |-> user, table_id |-> table_id,
                row_pk |-> row_pk, ret |-> "None"]
    /\ UNCHANGED <<lock_call, perm_vars, audit_vars, ds_vars, view_vars>>

NextLock ==
    \/ \E u \in UserIds, t \in TableIds, k \in RowPks : LockRowCheck(u, t, k)
    \/ \E u \in UserIds : LockRowWrite(u)
    \/ \E u \in UserIds, t \in TableIds, k \in RowPks : UnlockRow(u, t, k)

SpecLock == Init /\ [][NextLock]_vars

\* ====================================================== row lock properties

\* user holds a lock record on (table_id, row_pk)
HoldsLock(store, user, table_id, row_pk) ==
    \E i \in 1..Len(store) :
        /\ store[i].table_id = table_id
        /\ store[i].row_pk = row_pk
        /\ store[i].locked_by = user

\* the lock records of user on (table_id, row_pk), in rowid order
LocksOf(store, user, table_id, row_pk) ==
    SelectSeq(store, LAMBDA r: r.table_id = table_id /\ r.row_pk = row_pk
                               /\ r.locked_by = user)

\* what a lock_row call by user on (table_id, row_pk) would decide in this store
WouldBeRejected(store, user, table_id, row_pk) ==
    LockedBySomeoneElse(FetchOne(SelectLocks(store, table_id, row_pk)), user)

\* C1: while user a holds the lock on (t, k), a lock_row call on (t, k) made by
\* any other user b returns False at its check, and a still holds the lock.
C1_LockExclusive ==
    [][\A a \in UserIds, b \in UserIds, t \in TableIds, k \in RowPks :
          (a # b /\ HoldsLock(row_lock, a, t, k) /\ LockRowCheck(b, t, k))
          => (last'.ret = "False" /\ HoldsLock(row_lock', a, t, k))]_vars

\* C2: the row_lock store never holds more than one lock record for one
\* (table_id, row_pk).
C2_AtMostOneLock ==
    \A t \in TableIds, k \in RowPks : Len(SelectLocks(row_lock, t, k)) <= 1

\* C3: the check and the write of lock_row are separate steps: a passing check
\* reserves nothing in the store, and the write that follows is unconditional,
\* it adds the caller's record and returns True whatever the store holds by
\* then.  (The witness is the interleaving: two users hold the same row.)
C3_CheckThenWriteNotAtomic ==
    [][\A u \in UserIds :
          /\ (\A t \in TableIds, k \in RowPks :
                 LockRowCheck(u, t, k) => row_lock' = row_lock)
          /\ (LockRowWrite(u) =>
                 /\ last'.ret = "True"
                 /\ Len(row_lock') = Len(row_lock) + 1
                 /\ row_lock'[Len(row_lock')].locked_by = u)]_vars

\* two different users both got True from lock_row on the same unlocked row
C3_BothHoldTheRow ==
    \E a \in UserIds, b \in UserIds, t \in TableIds, k \in RowPks :
        /\ a # b
        /\ HoldsLock(row_lock, a, t, k)
        /\ HoldsLock(row_lock, b, t, k)
        /\ last = [op |-> "lock_row", user |-> b, table_id |-> t, row_pk |-> k,
                   ret |-> "True"]

\* C4: when (t, k) is locked by u alone, a lock_row by u returns True and
\* leaves exactly one lock record on (t, k), held by u.
C4_RelockIdempotent ==
    [][\A u \in UserIds :
          LET t == lock_call[u].table_id
              k == lock_call[u].row_pk
          IN  (/\ LockRowWrite(u)
               /\ HoldsLock(row_lock, u, t, k)
               /\ \A v \in UserIds \ {u} : ~HoldsLock(row_lock, v, t, k))
              => (/\ last'.ret = "True"
                  /\ Len(SelectLocks(row_lock', t, k)) = 1
                  /\ HoldsLock(row_lock', u, t, k))]_vars

\* C5: when a, who has locked (t, k) one or more times, calls unlock_row once,
\* the row is unlocked: lock_row by any other user b would then be accepted.
C5_UnlockFreesTheRow ==
    [][\A a \in UserIds, t \in TableIds, k \in RowPks :
          (HoldsLock(row_lock, a, t, k) /\ UnlockRow(a, t, k))
          => \A b \in UserIds \ {a} : ~WouldBeRejected(row_lock', b, t, k)]_vars

\* C6: the lock records of u on (t, k) are removed only by unlock_row(t, k)
\* called by u; every other step (unlock_row or lock_row by anybody else, any
\* call on another row) leaves all of them in place, and no step of the
\* system expires a lock.
C6_OnlyHolderUnlocks ==
    [][\/ row_lock' = row_lock
       \/ \A u \in UserIds, t \in TableIds, k \in RowPks :
             LET old == LocksOf(row_lock, u, t, k)
                 new == LocksOf(row_lock', u, t, k)
             IN  \/ new = old
                 \/ Len(new) = Len(old) + 1 /\ SubSeq(new, 1, Len(old)) = old
                 \/ UnlockRow(u, t, k)]_vars

\* u still holds (t, k) although another user has just called unlock_row on
\* it, while a third row is locked by somebody else
C6_HeldAfterForeignUnlock ==
    \E u \in UserIds, t \in TableIds, k \in RowPks :
        /\ HoldsLock(row_lock, u, t, k)
        /\ last.op = "unlock_row" /\ last.user # u
        /\ last.table_id = t /\ last.row_pk = k
        /\ \E i \in 1..Len(row_lock) :
               row_lock[i].locked_by # u /\ <<row_lock[i].table_id, row_lock[i].row_pk>> # <<t, k>>


\* ------------------------------------------------------------- user table

\* init_metadata_db creates the default admin as the first user (id 1);
\* every account made on the register page has the column default 'user'.
UserRole(u) == IF u = 1 THEN "admin" ELSE "user"

\* get_user_by_email: the keys of the user dict, in insertion order.
UserDictKeys == <<"id", "name", "email", "password_hash", "role">>

\* ----------------------------------------------------------------- session

HasKey(session, k) == \E i \in 1..Len(session.keys) : session.keys[i] = k

\* login_user: clear the session, then copy the user dict into it.
LoginUser(u) ==
    /\ storage_user' = [keys |-> UserDictKeys, id |-> u, role |-> UserRole(u)]
    /\ UNCHANGED <<permission, perm_last, lock_vars, audit_vars, ds_vars, view_vars>>

\* logout_user: `for k in list(app.storage.user): del app.storage.user[k]`.
LogoutUser ==
    /\ storage_user # EmptySession
    /\ storage_user' = EmptySession
    /\ UNCHANGED <<permission, perm_last, lock_vars, audit_vars, ds_vars, view_vars>>

\* del app.storage.user[k] for the first key k of the session
DelFirstKey(session) ==
    LET k == Head(session.keys)
    IN  [keys |-> Tail(session.keys),
         id   |-> IF k = "id" THEN 0 ELSE session.id,
         role |-> IF k = "role" THEN "" ELSE session.role]

\* The /logout page: `for k in app.storage.user: del app.storage.user[k]`
\* deletes while it iterates: the first key goes, and the iterator's next
\* step raises RuntimeError (dictionary changed size during iteration).
LogoutPage ==
    /\ storage_user.keys # <<>>
    /\ storage_user' = DelFirstKey(storage_user)
    /\ UNCHANGED <<permission, perm_last, lock_vars, audit_vars, ds_vars, view_vars>>

\* ------------------------------------------------------------ has_permission

PermKinds == {"read", "write", "delete", "owner"}

\* what callers may pass as `permission`: the four kinds, or anything else
PermissionArgs == PermKinds \cup {"other"}

\* Python's `a or b` on the INTEGER flags: a if a is truthy, else b
PyOr(a, b) == IF a # 0 THEN a ELSE b

\* SELECT can_read, ... FROM permission WHERE user_id = ? AND table_id = ?
SelectPermissions(store, user_id, table_id) ==
    SelectSeq(store, LAMBDA r: r.user_id = user_id /\ r.table_id = table_id)

\* A wrong `write` branch: can_write or can_delete.
RowAnswerWriteImpliedByDelete(row, perm) ==
    CASE perm = "read"   -> PyOr(row.can_read, row.is_owner)
      [] perm = "write"  -> PyOr(row.can_write, PyOr(row.can_delete, row.is_owner))
      [] perm = "delete" -> PyOr(row.can_delete, row.is_owner)
      [] perm = "owner"  -> row.is_owner
      [] OTHER           -> 0

\* has_permission, the branches on `permission` after the row is fetched;
\* anything else falls through to the final `return False`.
RowAnswer(row, perm) ==
    CASE perm = "read"   -> PyOr(row.can_read, row.is_owner)
      [] perm = "write"  -> PyOr(row.can_write, row.is_owner)
      [] perm = "delete" -> PyOr(row.can_delete, row.is_owner)
      [] perm = "owner"  -> row.is_owner
      [] OTHER           -> 0

Returns(v) == [ret |-> v, raised |-> ""]
Raises(e) == [ret |-> 0, raised |-> e]

\* has_permission without the admin short-circuit
HasPermissionNoAdmin(session, store, table_id, perm) ==
    IF session.keys = <<>> THEN Returns(0)
    ELSE IF ~HasKey(session, "id") THEN Raises("KeyError")
    ELSE LET rows == SelectPermissions(store, session.id, table_id)
         IN  IF Len(rows) = 0 THEN Returns(0)
             ELSE Returns(RowAnswer(Head(rows), perm))

\* has_permission that treats a missing row as full access
HasPermissionFailOpen(session, store, table_id, perm) ==
    IF session.keys = <<>> THEN Returns(0)
    ELSE IF ~HasKey(session, "role") THEN Raises("KeyError")
    ELSE IF session.role = "admin" THEN Returns(1)
    ELSE IF ~HasKey(session, "id") THEN Raises("KeyError")
    ELSE LET rows == SelectPermissions(store, session.id, table_id)
         IN  IF Len(rows) = 0 THEN Returns(1)
             ELSE Returns(RowAnswer(Head(rows), perm))

\* metadata.has_permission(table_id, permission), reading the ambient session:
\* Python's True and False are the integers 1 and 0, like the flags.
HasPermissionResult(session, store, table_id, perm) ==
    IF session.keys = <<>> THEN Returns(0)
    ELSE IF ~HasKey(session, "role") THEN Raises("KeyError")
    ELSE IF session.role = "admin" THEN Returns(1)
    ELSE IF ~HasKey(session, "id") THEN Raises("KeyError")
    ELSE LET rows == SelectPermissions(store, session.id, table_id)
         IN  IF Len(rows) = 0 THEN Returns(0)
             ELSE Returns(RowAnswer(Head(rows), perm))

HasPermission(table_id, perm) ==
    /\ LET r == HasPermissionResult(storage_user, permission, table_id, perm)
       IN  perm_last' = [op |-> "has_permission", table_id |-> table_id, user_id |-> 0,
                         arg |-> perm, ret |-> r.ret, raised |-> r.raised]
    /\ UNCHANGED <<permission, storage_user, lock_vars, audit_vars, ds_vars, view_vars>>

\* ---------------------------------------------------------- grant / revoke

Levels == {"read", "write", "delete", "owner"}

\* A grant whose `delete` level forgets can_write.
LevelFlagsDeleteWithoutWrite(level) ==
    << 1,
       IF level \in {"write", "owner"} THEN 1 ELSE 0,
       IF level \in {"delete", "owner"} THEN 1 ELSE 0,
       IF level = "owner" THEN 1 ELSE 0 >>

\* grant_permission: <<can_read, can_write, can_delete, is_owner>> of a level
LevelFlags(level) ==
    << 1,
       IF level \in {"write", "delete", "owner"} THEN 1 ELSE 0,
       IF level \in {"delete", "owner"} THEN 1 ELSE 0,
       IF level = "owner" THEN 1 ELSE 0 >>

PermissionRow(user_id, table_id, flags) ==
    [user_id |-> user_id, table_id |-> table_id, can_read |-> flags[1],
     can_write |-> flags[2], can_delete |-> flags[3], is_owner |-> flags[4]]

\* components.common.permissions.grant_permission: INSERT OR REPLACE INTO
\* permission (user_id, table_id, ...).  Table permission, like row_lock, has
\* no uniqueness constraint but its id, so the row is always added.
GrantPermission(table_id, user_id, level) ==
    /\ Len(permission) < MaxPermRows
    /\ permission' = InsertOrReplace(permission,
                         PermissionRow(user_id, table_id, LevelFlags(level)))
    /\ UNCHANGED <<storage_user, perm_last, lock_vars, audit_vars, ds_vars, view_vars>>

\* The permissions page's own grant_permission handler computes the same
\* flags into locals, then evaluates `matadata.METADATA_DB`: a NameError
\* before the INSERT, so the handler ends without touching the store.
PageGrantPermission(table_id, user_id, level) ==
    /\ LevelFlags(level) \in Seq({0, 1})
    /\ UNCHANGED vars

\* A DELETE that forgets `AND table_id = ?`.
DeletePermissionsOfUser(store, user_id, table_id) ==
    SelectSeq(store, LAMBDA r: r.user_id # user_id)

\* DELETE FROM permission WHERE user_id = ? AND table_id = ?
DeletePermissions(store, user_id, table_id) ==
    SelectSeq(store, LAMBDA r: ~(r.user_id = user_id /\ r.table_id = table_id))

\* revoke_permission (components.common.permissions, and the page's handler):
\* one DELETE and its commit; returns True.
RevokePermission(table_id, user_id) ==
    /\ permission' = DeletePermissions(permission, user_id, table_id)
    /\ perm_last' = [op |-> "revoke_permission", table_id |-> table_id,
                     user_id |-> user_id, arg |-> "", ret |-> 1, raised |-> ""]
    /\ UNCHANGED <<storage_user, lock_vars, audit_vars, ds_vars, view_vars>>

NextPerm ==
    \/ \E u \in UserIds : LoginUser(u)
    \/ LogoutUser
    \/ LogoutPage
    \/ \E t \in TableIds, u \in UserIds, l \in Levels : GrantPermission(t, u, l)
    \/ \E t \in TableIds, u \in UserIds, l \in Levels : PageGrantPermission(t, u, l)
    \/ \E t \in TableIds, u \in UserIds : RevokePermission(t, u)

SpecPerm == Init /\ [][NextPerm]_vars

\* The permission store under the calls that write it, whoever is logged in.
NextGrant ==
    \/ \E t \in TableIds, u \in UserIds, l \in Levels : GrantPermission(t, u, l)
    \/ \E t \in TableIds, u \in UserIds, l \in Levels : PageGrantPermission(t, u, l)
    \/ \E t \in TableIds, u \in UserIds : RevokePermission(t, u)

SpecGrant == Init /\ [][NextGrant]_vars

\* has_permission as a function of its inputs: any session the login and
\* logout code can leave behind, and any one permission row the schema admits
\* (four independent INTEGER flags), or none.
FlagRows ==
    { PermissionRow(u, t, <<cr, cw, cd, io>>) :
        u \in UserIds, t \in TableIds, cr \in {0, 1}, cw \in {0, 1}, cd \in {0, 1}, io \in {0, 1} }

Sessions ==
    {EmptySession} \cup
    { [keys |-> SubSeq(UserDictKeys, i, Len(UserDictKeys)),
       id   |-> IF i = 1 THEN u ELSE 0,
       role |-> UserRole(u)] : u \in UserIds, i \in 1..Len(UserDictKeys) }

InitHasPermission ==
    /\ row_lock = <<>>
    /\ lock_call = [u \in UserIds |-> IdleCall]
    /\ last = NoOp
    /\ permission \in {<<>>} \cup { <<r>> : r \in FlagRows }
    /\ storage_user \in Sessions
    /\ perm_last = NoPermOp
    /\ changelog = <<>>
    /\ audit_last = NoAuditOp
    /\ data = <<>>
    /\ call = NoCall
    /\ conn = NoConn
    /\ view = NoView

NextHasPermission ==
    \E t \in TableIds, p \in PermissionArgs : HasPermission(t, p)

SpecHasPermission == InitHasPermission /\ [][NextHasPermission]_vars

\* ==================================================== permission properties

IsAdminSession(session) ==
    session.keys # <<>> /\ HasKey(session, "role") /\ session.role = "admin"

\* a logged-in user who is not an admin: the session names the user
IsPlainUserSession(session) ==
    /\ HasKey(session, "id")
    /\ HasKey(session, "role")
    /\ session.role # "admin"

\* C7: for a session whose role is admin, has_permission returns True for
\* every table and every permission asked, with or without a permission row.
C7_AdminAlwaysPermitted ==
    (perm_last.op = "has_permission" /\ IsAdminSession(storage_user))
    => (perm_last.ret = 1 /\ perm_last.raised = "")

\* an admin was answered True on a table for which the store has no row of
\* theirs at all
C7_AdminWithoutRow ==
    /\ perm_last.op = "has_permission"
    /\ IsAdminSession(storage_user)
    /\ HasKey(storage_user, "id")
    /\ SelectPermissions(permission, storage_user.id, perm_last.table_id) = <<>>
    /\ perm_last.arg = "owner"
    /\ perm_last.ret = 1

\* C8: has_permission returns False, for every permission kind, when there
\* is no session user, and for a non-admin user without a permission row for
\* (user, table).
C8_FailClosed ==
    perm_last.op = "has_permission"
    => /\ storage_user = EmptySession
            => (perm_last.ret = 0 /\ perm_last.raised = "")
       /\ (/\ IsPlainUserSession(storage_user)
           /\ SelectPermissions(permission, storage_user.id, perm_last.table_id) = <<>>)
            => (perm_last.ret = 0 /\ perm_last.raised = "")

\* a non-admin user was refused on a table for which only somebody else, or
\* only another table, has a row (here an owner row)
C8_RefusedWithoutRow ==
    /\ perm_last.op = "has_permission"
    /\ IsPlainUserSession(storage_user)
    /\ SelectPermissions(permission, storage_user.id, perm_last.table_id) = <<>>
    /\ Len(permission) = 1 /\ permission[1].is_owner = 1
    /\ perm_last.arg = "read"
    /\ perm_last.ret = 0 /\ perm_last.raised = ""

\* C9: for a non-admin user with a permission row, has_permission answers
\* can_read or is_owner for 'read', can_write or is_owner for 'write',
\* can_delete or is_owner for 'delete', and is_owner for 'owner'.
C9_FlagsDecide ==
    (/\ perm_last.op = "has_permission"
     /\ perm_last.arg \in PermKinds
     /\ IsPlainUserSession(storage_user)
     /\ SelectPermissions(permission, storage_user.id, perm_last.table_id) # <<>>)
    => LET row == Head(SelectPermissions(permission, storage_user.id, perm_last.table_id))
           granted == perm_last.ret # 0
       IN  /\ perm_last.raised = ""
           /\ perm_last.arg = "read"   => (granted <=> (row.can_read = 1 \/ row.is_owner = 1))
           /\ perm_last.arg = "write"  => (granted <=> (row.can_write = 1 \/ row.is_owner = 1))
           /\ perm_last.arg = "delete" => (granted <=> (row.can_delete = 1 \/ row.is_owner = 1))
           /\ perm_last.arg = "owner"  => (granted <=> row.is_owner = 1)

\* a row with can_delete but neither can_write nor is_owner: 'write' is refused
C9_DeleteDoesNotGiveWrite ==
    /\ perm_last.op = "has_permission"
    /\ perm_last.arg = "write"
    /\ IsPlainUserSession(storage_user)
    /\ SelectPermissions(permission, storage_user.id, perm_last.table_id) # <<>>
    /\ LET row == Head(SelectPermissions(permission, storage_user.id, perm_last.table_id))
       IN  row.can_delete = 1 /\ row.can_write = 0 /\ row.is_owner = 0
    /\ perm_last.ret = 0

\* the flag names set in <<can_read, can_write, can_delete, is_owner>>
FlagSet(flags) ==
    {n \in {"can_read", "can_write", "can_delete", "is_owner"} :
        \/ n = "can_read" /\ flags[1] = 1
        \/ n = "can_write" /\ flags[2] = 1
        \/ n = "can_delete" /\ flags[3] = 1
        \/ n = "is_owner" /\ flags[4] = 1}

RowFlags(row) == <<row.can_read, row.can_write, row.can_delete, row.is_owner>>

\* the levels in rising order
LevelOrder == <<"read", "write", "delete", "owner">>

\* C10: grant_permission(table, user, level) writes a row for (user, table)
\* whose flags are {can_read} for 'read', {can_read, can_write} for 'write',
\* {can_read, can_write, can_delete} for 'delete' and all four for 'owner';
\* the flags of a lower level are a subset of those of every higher level.
C10_LevelFlagsMonotonic ==
    [][\A t \in TableIds, u \in UserIds, l \in Levels :
          GrantPermission(t, u, l) =>
              LET row == permission'[Len(permission')]
              IN  /\ Len(permission') = Len(permission) + 1
                  /\ row.user_id = u /\ row.table_id = t
                  /\ l = "read"   => FlagSet(RowFlags(row)) = {"can_read"}
                  /\ l = "write"  => FlagSet(RowFlags(row)) = {"can_read", "can_write"}
                  /\ l = "delete" => FlagSet(RowFlags(row)) = {"can_read", "can_write", "can_delete"}
                  /\ l = "owner"  => FlagSet(RowFlags(row)) =
                                         {"can_read", "can_write", "can_delete", "is_owner"}
                  /\ \A i \in 1..Len(LevelOrder), j \in 1..Len(LevelOrder) :
                        i <= j => FlagSet(LevelFlags(LevelOrder[i]))
                                      \subseteq FlagSet(LevelFlags(LevelOrder[j]))]_vars

\* the store holds a row granted at level 'delete' and one granted at 'read'
C10_GrantedDeleteAndRead ==
    \E i \in 1..Len(permission), j \in 1..Len(permission) :
        /\ FlagSet(RowFlags(permission[i])) = {"can_read", "can_write", "can_delete"}
        /\ FlagSet(RowFlags(permission[j])) = {"can_read"}

\* the session login_user leaves for user u
SessionOf(u) == [keys |-> UserDictKeys, id |-> u, role |-> UserRole(u)]

\* get_user_permissions(table_id, user_id): the flags of the first row the
\* SELECT returns, as booleans; all False without a row.
GetUserPermissions(store, table_id, user_id) ==
    LET rows == SelectPermissions(store, user_id, table_id)
    IN  IF Len(rows) = 0
        THEN [can_read |-> FALSE, can_write |-> FALSE, can_delete |-> FALSE,
              is_owner |-> FALSE]
        ELSE [can_read |-> Head(rows).can_read # 0, can_write |-> Head(rows).can_write # 0,
              can_delete |-> Head(rows).can_delete # 0, is_owner |-> Head(rows).is_owner # 0]

\* C11: the permission store holds at most one row per (user_id, table_id),
\* whatever grant_permission and revoke_permission calls were made (so that a
\* repeated grant leaves the store as it was).
C11_AtMostOneRowPerPair ==
    \A u \in UserIds, t \in TableIds : Len(SelectPermissions(permission, u, t)) <= 1

\* C12: right after grant_permission(t, u, l) the effective permissions of
\* the non-admin user u on t are the flags of l: get_user_permissions
\* returns them, and has_permission answers every kind as a row with exactly
\* these flags would, whatever was granted to (u, t) before.
C12_GrantDecidesEffectiveFlags ==
    [][\A t \in TableIds, u \in UserIds, l \in Levels :
          (GrantPermission(t, u, l) /\ UserRole(u) # "admin") =>
              LET want == PermissionRow(u, t, LevelFlags(l))
                  got  == GetUserPermissions(permission', t, u)
              IN  /\ got.can_read = (want.can_read # 0)
                  /\ got.can_write = (want.can_write # 0)
                  /\ got.can_delete = (want.can_delete # 0)
                  /\ got.is_owner = (want.is_owner # 0)
                  /\ \A k \in PermKinds :
                        HasPermissionResult(SessionOf(u), permission', t, k)
                            = Returns(RowAnswer(want, k))]_vars

\* C13: revoke_permission(t, u) leaves no permission row for (u, t),
\* has_permission is then False for every kind for the non-admin user u on t,
\* and the rows of every other user and of every other table are unchanged.
C13_RevokeReturnsToFailClosed ==
    [][\A t \in TableIds, u \in UserIds :
          RevokePermission(t, u) =>
              /\ SelectPermissions(permission', u, t) = <<>>
              /\ UserRole(u) # "admin" =>
                     \A k \in PermKinds :
                         HasPermissionResult(SessionOf(u), permission', t, k) = Returns(0)
              /\ \A v \in UserIds, w \in TableIds :
                     <<v, w>> # <<u, t>> =>
                         SelectPermissions(permission', v, w)
                             = SelectPermissions(permission, v, w)]_vars

\* the pair (u, t) was just revoked and has no row left, while the same
\* user's grant on another table has survived the revoke
C13_RevokedPairOnly ==
    \E t \in TableIds, w \in TableIds :
        /\ perm_last.op = "revoke_permission" /\ perm_last.table_id = t
        /\ w # t
        /\ UserRole(perm_last.user_id) # "admin"
        /\ SelectPermissions(permission, perm_last.user_id, t) = <<>>
        /\ SelectPermissions(permission, perm_last.user_id, w) # <<>>

\* =============================================================== audit log

\* The cell mutation the calls below record: row_pk, column_name, old_value
\* and new_value are passed through to the INSERT as they are.
Change == [row_pk |-> 1, column_name |-> "city", old_value |-> "NYC", new_value |-> "LA"]

\* one row of table changelog (modified_at, a timestamp no statement reads
\* back into a write, is left out)
ChangelogEntry(table_id, modified_by) ==
    [table_id |-> table_id, row_pk |-> Change.row_pk,
     column_name |-> Change.column_name, old_value |-> Change.old_value,
     new_value |-> Change.new_value, modified_by |-> modified_by]

\* components.common.audit.log_change: its outcome.  `user_id` defaults to
\* None; `if user_id is None and app.storage.user` then reads the session's
\* 'id', and a KeyError there is caught by the function's `except Exception`,
\* which returns False before the INSERT is reached.
LogChangeResult(session, store, table_id, user_id) ==
    IF user_id = None /\ session.keys # <<>> /\ ~HasKey(session, "id")
    THEN [store |-> store, ret |-> "False"]
    ELSE LET modified_by == IF user_id = None /\ session.keys # <<>>
                            THEN session.id ELSE user_id
         IN  [store |-> Append(store, ChangelogEntry(table_id, modified_by)),
              ret |-> "True"]

LogChange(table_id, user_id) ==
    /\ Len(changelog) < MaxLog
    /\ LET r == LogChangeResult(storage_user, changelog, table_id, user_id)
       IN  /\ changelog' = r.store
           /\ audit_last' = [op |-> "log_change", table_id |-> table_id, ret |-> r.ret]
    /\ UNCHANGED <<lock_vars, perm_vars, ds_vars, view_vars>>

\* log_change of pages/table_view.py and _log_change of the table view
\* component: the INSERT's parameter tuple evaluates app.storage.user['id']
\* with no default and no try, so a session without 'id' raises KeyError
\* before the statement runs.
PageLogChange(table_id) ==
    /\ Len(changelog) < MaxLog
    /\ IF HasKey(storage_user, "id")
       THEN /\ changelog' = Append(changelog, ChangelogEntry(table_id, storage_user.id))
            /\ audit_last' = [op |-> "page_log_change", table_id |-> table_id, ret |-> "None"]
       ELSE /\ changelog' = changelog
            /\ audit_last' = [op |-> "page_log_change", table_id |-> table_id,
                              ret |-> "KeyError"]
    /\ UNCHANGED <<lock_vars, perm_vars, ds_vars, view_vars>>

\* A clear_changelog without its admin check.
MayClearAnyone(session) == TRUE

\* clear_changelog: `not app.storage.user or app.storage.user['role'] != 'admin'`
\* is the refusal; a session without 'role' raises KeyError, which the
\* function's `except Exception` turns into False as well.
MayClear(session) ==
    session.keys # <<>> /\ HasKey(session, "role") /\ session.role = "admin"

\* DELETE FROM changelog WHERE table_id = ?
DeleteChangelog(store, table_id) ==
    SelectSeq(store, LAMBDA e: e.table_id # table_id)

ClearChangelog(table_id) ==
    /\ IF MayClear(storage_user)
       THEN /\ changelog' = DeleteChangelog(changelog, table_id)
            /\ audit_last' = [op |-> "clear_changelog", table_id |-> table_id, ret |-> "True"]
       ELSE /\ changelog' = changelog
            /\ audit_last' = [op |-> "clear_changelog", table_id |-> table_id, ret |-> "False"]
    /\ UNCHANGED <<lock_vars, perm_vars, ds_vars, view_vars>>

NextAudit ==
    \/ \E u \in UserIds : LoginUser(u)
    \/ LogoutUser
    \/ LogoutPage
    \/ \E t \in TableIds, u \in UserIds \cup {None} : LogChange(t, u)
    \/ \E t \in TableIds : PageLogChange(t)
    \/ \E t \in TableIds : ClearChangelog(t)

SpecAudit == Init /\ [][NextAudit]_vars

\* changelog' is changelog with exactly one entry added after all others
AppendsOne(old, new) ==
    Len(new) = Len(old) + 1 /\ SubSeq(new, 1, Len(old)) = old

NoneV == [kind |-> "none", val |-> 0]
IntV(n) == [kind |-> "int", val |-> n]
TextV(s) == [kind |-> "text", val |-> s]
ListV(q) == [kind |-> "list", val |-> q]      \* a list
TupleV(q) == [kind |-> "tuple", val |-> q]    \* a tuple
Missing == [kind |-> "missing", val |-> 0]    \* keyword argument not passed

\* bool(v) for the values above
Truthy(v) ==
    CASE v.kind \in {"none", "missing"} -> FALSE
      [] v.kind = "int"                 -> v.val # 0
      [] v.kind = "text"                -> v.val # ""
      [] OTHER                          -> Len(v.val) > 0

\* pydantic's ValidationError (a ValueError), raised by a constructor
ValidationError == [type |-> "ValidationError"]

\* ------------------------------------------------------------ connections

\* the table the external database holds (the tests create test_table)
TableName == "test_table"

\* class BaseDataSourceConfig: table_name: str, required
BaseDataSourceConfig(table_name) == [table_name |-> table_name]

\* SQLiteConnectionWrapper.__init__: self._current_table = table_name or 'data'
SQLiteConnectionWrapper(table_name) ==
    [_current_table |-> TextV(IF table_name # "" THEN table_name ELSE "data")]

\* SQLiteDataSource.connect(config): the wrapped connection (config is kept
\* next to it for the properties; the wrapper does not hold it)
SQLiteConnect(config) ==
    [plugin |-> "sqlite", config |-> config,
     attrs |-> SQLiteConnectionWrapper(config.table_name)]

\* PostgreSQLDataSource.connect(config): `conn = engine.connect()`, the
\* sqlalchemy Connection as the engine made it
PostgreSQLConnect(config) ==
    [plugin |-> "postgresql", config |-> config,
     attrs |-> [_current_table |-> Missing]]

\* connect(config) of the plugin named
Connect(plugin, config) ==
    IF plugin = "sqlite" THEN SQLiteConnect(config) ELSE PostgreSQLConnect(config)

\* getattr(conn, '_current_table', 'data')
CurrentTable(c) ==
    IF c.attrs._current_table = Missing THEN "data" ELSE c.attrs._current_table.val

\* ------------------------------------------------------- filter grammar

\* op: Literal['=', '!=', '<', '<=', '>', '>=', 'in']
Ops == {"=", "!=", "<", "<=", ">", ">=", "in"}

\* class Condition: field: str, op: Literal[...], value: object.  The value
\* is typed `object`, which every value passes; no validator looks at it.
Condition(field, op, value) ==
    IF op \notin Ops THEN ValidationError
    ELSE [type |-> "Condition", field |-> field, op |-> op, value |-> value]

\* A root validator that only rejects a missing `filters`.
ensure_present(filters) ==
    filters.kind \notin {"missing", "none"}

\* ConditionList.ensure_non_empty (root_validator, pre=True):
\* `flt = values.get('filters')`, `not flt or not isinstance(flt, list)`
ensure_non_empty(filters) ==
    LET flt == IF filters = Missing THEN NoneV ELSE filters
    IN  ~(~Truthy(flt) \/ flt.kind # "list")

\* class ConditionList: the root validator, then the fields: mode:
\* Literal['AND', 'OR'], filters: List[ConditionUnion] (the elements are
\* Condition or ConditionList objects, already constructed).
ConditionList(mode, filters) ==
    IF ~ensure_non_empty(filters) THEN ValidationError
    ELSE IF mode \notin {"AND", "OR"} THEN ValidationError
    ELSE IF filters.kind \notin {"list", "tuple"} THEN ValidationError
    ELSE [type |-> "ConditionList", mode |-> mode, filters |-> filters.val]

\* Field(None, ge=1) without the bound.
LimitOkAny(limit) == limit = NoneV \/ limit.kind = "int"

\* limit: Optional[int] = Field(None, ge=1)
LimitOk(limit) == limit = NoneV \/ (limit.kind = "int" /\ limit.val >= 1)

\* offset: int = Field(0, ge=0)
OffsetOk(offset) == offset.kind = "int" /\ offset.val >= 0

\* class OrderItem: field: str, ascending: bool
OrderItem(field, ascending) ==
    [type |-> "OrderItem", field |-> field, ascending |-> ascending]

\* class QuerySpec (filter: an object already constructed, or None;
\* order_by: a list of OrderItem objects, or None)
QuerySpec(limit, offset, filter, order_by) ==
    LET lim == IF limit = Missing THEN NoneV ELSE limit
        off == IF offset = Missing THEN IntV(0) ELSE offset
    IN  IF ~LimitOk(lim) \/ ~OffsetOk(off) THEN ValidationError
        ELSE [type |-> "QuerySpec", limit |-> lim, offset |-> off,
              order_by |-> IF order_by = Missing THEN NoneV ELSE order_by,
              filter |-> filter]

\* class InsertSpec: payload: dict[str, Any] (the sequence of its items, in
\* insertion order); the key "__table__" names the target table
InsertSpec(payload) ==
    [type |-> "InsertSpec", payload |-> payload]

\* class UpdateSpec: filters: ConditionUnion, payload: dict (here the
\* sequence of its <<column, value>> items, in insertion order)
UpdateSpec(filters, payload) ==
    [type |-> "UpdateSpec", filters |-> filters, payload |-> payload]

\* class DeleteSpec: filters: ConditionUnion
DeleteSpec(filters) ==
    [type |-> "DeleteSpec", filters |-> filters]

\* ------------------------------------------------------------ _build_where
\* SQL text is kept as its sequence of tokens: ", ".join(...) puts the token
\* "," between the items, " AND ".join(...) the token "AND".

RECURSIVE Join(_, _)
Join(items, sep) ==
    IF Len(items) = 0 THEN <<>>
    ELSE IF Len(items) = 1 THEN items[1]
    ELSE items[1] \o <<sep>> \o Join(Tail(items), sep)

\* An extend that puts the parameters of each later child first.
RECURSIVE ExtendInFront(_)
ExtendInFront(lists) ==
    IF Len(lists) = 0 THEN <<>> ELSE ExtendInFront(Tail(lists)) \o lists[1]

\* all_params.extend(sub_params), for each sub in turn
RECURSIVE Extend(_)
Extend(lists) ==
    IF Len(lists) = 0 THEN <<>> ELSE lists[1] \o Extend(Tail(lists))

\* what `for _ in node.value` and list(node.value) can iterate
Iterable(v) == v.kind \in {"list", "tuple"}

\* A clauses.append(sub_clause) that forgets the parentheses.
Bare(clause) == clause

\* f"({sub_clause})"
Parenthesized(clause) == <<"(">> \o clause \o <<")">>

\* " AND " if node.mode == 'AND' else " OR "
Connector(mode) == IF mode = "AND" THEN "AND" ELSE "OR"

\* SQLiteDataSource._build_where(node): the clause and its positional
\* parameters; iterating a value that is no sequence raises TypeError.
RECURSIVE SQLiteBuildWhere(_)
SQLiteBuildWhere(node) ==
    IF node.type = "Condition"
    THEN IF node.op = "in"
         THEN IF ~Iterable(node.value)
              THEN [clause |-> <<>>, params |-> <<>>, raised |-> "TypeError"]
              ELSE [clause |-> <<node.field, "IN", "(">>
                                \o Join([i \in 1..Len(node.value.val) |-> <<"?">>], ",")
                                \o <<")">>,
                    params |-> node.value.val, raised |-> ""]
         ELSE [clause |-> <<node.field, node.op, "?">>, params |-> <<node.value>>,
               raised |-> ""]
    ELSE LET subs == [i \in 1..Len(node.filters) |-> SQLiteBuildWhere(node.filters[i])]
         IN  IF \E i \in 1..Len(subs) : subs[i].raised # ""
             THEN [clause |-> <<>>, params |-> <<>>, raised |-> "TypeError"]
             ELSE [clause |-> Join([i \in 1..Len(subs) |-> Parenthesized(subs[i].clause)],
                                   Connector(node.mode)),
                   params |-> Extend([i \in 1..Len(subs) |-> subs[i].params]),
                   raised |-> ""]

\* params[name] = value on a dict kept as the sequence of its items
DictSet(d, name, value) ==
    IF \E i \in 1..Len(d) : d[i].name = name
    THEN [i \in 1..Len(d) |-> IF d[i].name = name THEN [name |-> name, value |-> value]
                                                  ELSE d[i]]
    ELSE Append(d, [name |-> name, value |-> value])

\* {**a, **b}
Merge(a, b) ==
    LET RECURSIVE go(_, _)
        go(d, k) == IF k > Len(b) THEN d ELSE go(DictSet(d, b[k].name, b[k].value), k + 1)
    IN  go(a, 1)

\* An `in` loop that names every placeholder of the list param_name.
RECURSIVE PgInLoopOneName(_, _, _, _)
PgInLoopOneName(values, idx, param_name, acc) ==
    IF idx > Len(values) THEN acc
    ELSE PgInLoopOneName(values, idx + 1, param_name,
                         [placeholders |-> Append(acc.placeholders, <<":" \o param_name>>),
                          params |-> DictSet(acc.params, param_name, values[idx])])

\* PostgreSQLDataSource._build_where, the `in` loop from position idx on:
\* pname = f"{param_name}_{idx}", one ":pname" placeholder and one
\* params[pname] = val per value (enumerate counts from 0)
RECURSIVE PgInLoop(_, _, _, _)
PgInLoop(values, idx, param_name, acc) ==
    IF idx > Len(values) THEN acc
    ELSE LET pname == param_name \o "_" \o ToString(idx - 1)
         IN  PgInLoop(values, idx + 1, param_name,
                      [placeholders |-> Append(acc.placeholders, <<":" \o pname>>),
                       params |-> DictSet(acc.params, pname, values[idx])])

\* PostgreSQLDataSource._build_where(node, params, param_prefix): the clause
\* and the params dict, which is the caller's dict, filled in place.
RECURSIVE PostgreSQLBuildWhere(_, _, _)
RECURSIVE PgGroupLoop(_, _, _, _)
RECURSIVE PgGroupLoopOwnDicts(_, _, _, _)
PostgreSQLBuildWhere(node, params, param_prefix) ==
    IF node.type = "Condition"
    THEN LET param_name == param_prefix \o "_" \o ToString(Len(params))
         IN  IF node.op = "in"
             THEN IF ~Iterable(node.value)
                  THEN [clause |-> <<>>, params |-> params, raised |-> "TypeError"]
                  ELSE LET r == PgInLoop(node.value.val, 1, param_name,
                                         [placeholders |-> <<>>, params |-> params])
                       IN  [clause |-> <<node.field, "IN", "(">>
                                        \o Join(r.placeholders, ",") \o <<")">>,
                            params |-> r.params, raised |-> ""]
             ELSE [clause |-> <<node.field, node.op, ":" \o param_name>>,
                   params |-> DictSet(params, param_name, node.value), raised |-> ""]
    ELSE LET r == PgGroupLoop(node.filters, 1, param_prefix,
                              [clauses |-> <<>>, params |-> params, raised |-> ""])
         IN  [clause |-> Join(r.clauses, Connector(node.mode)), params |-> r.params,
              raised |-> r.raised]

\* A loop that builds each child into a dict of its own, with the prefix of
\* the group, and merges the dicts afterwards.
PgGroupLoopOwnDicts(filters, idx, param_prefix, acc) ==
    IF idx > Len(filters) \/ acc.raised # "" THEN acc
    ELSE LET sub == PostgreSQLBuildWhere(filters[idx], <<>>, param_prefix)
         IN  PgGroupLoopOwnDicts(filters, idx + 1, param_prefix,
                                 [clauses |-> Append(acc.clauses, Parenthesized(sub.clause)),
                                  params |-> Merge(acc.params, sub.params),
                                  raised |-> sub.raised])

\* the loop over enumerate(node.filters): each child is built with the
\* prefix f"{param_prefix}{idx}" into the same params dict
PgGroupLoop(filters, idx, param_prefix, acc) ==
    IF idx > Len(filters) \/ acc.raised # "" THEN acc
    ELSE LET sub == PostgreSQLBuildWhere(filters[idx], acc.params,
                                         param_prefix \o ToString(idx - 1))
         IN  PgGroupLoop(filters, idx + 1, param_prefix,
                         [clauses |-> Append(acc.clauses, Parenthesized(sub.clause)),
                          params |-> sub.params, raised |-> sub.raised])

\* ------------------------------------------------------- the SQLite engine
\* What sqlite3 does with the statements the plugin sends: a statement is a
\* token sequence with "?" placeholders, bound in order to the parameters.

\* the columns of the table, as the tests create it (name left out)
Columns == <<"id", "age", "city">>

IsColumn(name) == \E i \in 1..Len(Columns) : Columns[i] = name

\* the declared types of the columns
ColumnTypes == <<"INTEGER", "INTEGER", "TEXT">>

ColumnType(name) == ColumnTypes[CHOOSE i \in 1..Len(Columns) : Columns[i] = name]

\* the integers whose decimal text a statement is given
Numerals == 0..(MaxData + 1)

\* column affinity: a TEXT value that is the decimal text of an integer is
\* converted to that integer when it is stored in, or compared with, an
\* INTEGER column; every other value is taken as it is
Affinity(col, v) ==
    IF ColumnType(col) = "INTEGER" /\ v.kind = "text"
       /\ \E n \in Numerals : ToString(n) = v.val
    THEN IntV(CHOOSE n \in Numerals : ToString(n) = v.val)
    ELSE v

\* the text values in play, in ascending BINARY collation
TextOrder == <<"CHI", "LA", "NYC", "Young">>

Rank(text) == CHOOSE i \in 1..Len(TextOrder) : TextOrder[i] = text

\* a < b in SQLite: numbers by value, text by collation, and any INTEGER
\* before any TEXT
Less(a, b) ==
    CASE a.kind = "int" /\ b.kind = "int"   -> a.val < b.val
      [] a.kind = "text" /\ b.kind = "text" -> Rank(a.val) < Rank(b.val)
      [] OTHER                              -> a.kind = "int" /\ b.kind = "text"

\* the comparison operators; a comparison with NULL is never true
Compare(op, a, b) ==
    IF a.kind = "none" \/ b.kind = "none" THEN FALSE
    ELSE CASE op = "="  -> a = b
           [] op = "!=" -> a # b
           [] op = "<"  -> Less(a, b)
           [] op = "<=" -> Less(a, b) \/ a = b
           [] op = ">"  -> Less(b, a)
           [] op = ">=" -> Less(b, a) \/ a = b

\* position of the first token kw, 0 when there is none
Pos(toks, kw) ==
    IF \E i \in 1..Len(toks) : toks[i] = kw
    THEN CHOOSE i \in 1..Len(toks) : toks[i] = kw /\ \A j \in 1..(i - 1) : toks[j] # kw
    ELSE 0

\* nesting depth of parentheses after token i
Depth(toks, i) ==
    Cardinality({j \in 1..i : toks[j] = "("}) - Cardinality({j \in 1..i : toks[j] = ")"})

\* the parameter bound to the placeholder at position i
Bound(toks, params, i) ==
    params[Cardinality({j \in 1..i : toks[j] = "?"})]

\* the first kw in lo..hi that is not inside parentheses opened in lo..hi
TopLevel(toks, lo, hi, kw) ==
    LET at == {i \in lo..hi : toks[i] = kw /\ Depth(toks, i) = Depth(toks, lo - 1)}
    IN  IF at = {} THEN 0 ELSE CHOOSE i \in at : \A j \in at : i <= j

\* the expression toks[lo..hi] on one row: OR binds weaker than AND, AND
\* weaker than a comparison or IN; parentheses group
RECURSIVE EvalOr(_, _, _, _, _)
RECURSIVE EvalAnd(_, _, _, _, _)
RECURSIVE EvalAtom(_, _, _, _, _)
EvalOr(toks, params, row, lo, hi) ==
    LET p == TopLevel(toks, lo, hi, "OR")
    IN  IF p = 0 THEN EvalAnd(toks, params, row, lo, hi)
        ELSE EvalAnd(toks, params, row, lo, p - 1) \/ EvalOr(toks, params, row, p + 1, hi)

EvalAnd(toks, params, row, lo, hi) ==
    LET p == TopLevel(toks, lo, hi, "AND")
    IN  IF p = 0 THEN EvalAtom(toks, params, row, lo, hi)
        ELSE EvalAtom(toks, params, row, lo, p - 1) /\ EvalAnd(toks, params, row, p + 1, hi)

EvalAtom(toks, params, row, lo, hi) ==
    IF toks[lo] = "("
    THEN EvalOr(toks, params, row, lo + 1, hi - 1)
    ELSE IF toks[lo + 1] = "IN"
    THEN \E i \in (lo + 3)..(hi - 1) :
             toks[i] = "?" /\ Compare("=", row[toks[lo]],
                                      Affinity(toks[lo], Bound(toks, params, i)))
    ELSE Compare(toks[lo + 1], row[toks[lo]],
                 Affinity(toks[lo], Bound(toks, params, lo + 2)))

\* the column names an expression mentions: the token before an operator
Mentioned(toks, lo, hi) ==
    {toks[i] : i \in {j \in lo..(hi - 1) : toks[j + 1] \in (Ops \ {"in"}) \cup {"IN"}}}

\* sqlite3 raises OperationalError for a column the table does not have,
\* and ProgrammingError when placeholders and parameters differ in number
CheckStatement(toks, params, lo, hi) ==
    IF \E c \in Mentioned(toks, lo, hi) : ~IsColumn(c) THEN "OperationalError"
    ELSE IF Cardinality({j \in 1..Len(toks) : toks[j] = "?"}) # Len(params)
    THEN "ProgrammingError"
    ELSE ""

\* the numbers LIMIT and OFFSET can carry
Numbers == (-(MaxLimit + 1))..(MaxLimit + 1)

ParseInt(tok) == CHOOSE n \in Numbers : ToString(n) = tok

\* rows[from..], at most count of them
Slice(rows, offset, count) ==
    SubSeq(rows, offset + 1,
           IF offset + count < Len(rows) THEN offset + count ELSE Len(rows))

\* a sorts before b: NULL first, then numbers, then text
SortsBefore(a, b) ==
    IF a.kind = "none" THEN b.kind # "none"
    ELSE IF b.kind = "none" THEN FALSE
    ELSE Less(a, b)

\* row r sorts before row q under the ordering terms `col ASC|DESC` of
\* toks[lo..hi], "," between them: the first term they differ in decides
RECURSIVE RowSortsBefore(_, _, _, _, _)
RowSortsBefore(toks, lo, hi, r, q) ==
    IF lo > hi THEN FALSE
    ELSE IF r[toks[lo]] = q[toks[lo]] THEN RowSortsBefore(toks, lo + 3, hi, r, q)
    ELSE IF toks[lo + 1] = "ASC" THEN SortsBefore(r[toks[lo]], q[toks[lo]])
    ELSE SortsBefore(q[toks[lo]], r[toks[lo]])

\* the rows in the order of the terms; rows the terms do not tell apart
\* stay in rowid order
OrderRows(toks, lo, hi, rows) ==
    LET before(j, i) == \/ RowSortsBefore(toks, lo, hi, rows[j], rows[i])
                        \/ ~RowSortsBefore(toks, lo, hi, rows[i], rows[j]) /\ j < i
        place(i) == Cardinality({j \in 1..Len(rows) : before(j, i)}) + 1
    IN  [k \in 1..Len(rows) |-> rows[CHOOSE i \in 1..Len(rows) : place(i) = k]]

\* SELECT * FROM <table> [WHERE <expr>] [ORDER BY <terms>] [LIMIT n]
\* [OFFSET m]: the rows in rowid order, or in the order of the terms.  OFFSET
\* is part of the LIMIT clause: without LIMIT it is a syntax error
\* (OperationalError).  A negative LIMIT is no limit, a negative OFFSET is 0.
SQLiteSelect(toks, params, rows) ==
    LET where == Pos(toks, "WHERE")
        order == Pos(toks, "ORDER")
        limit == Pos(toks, "LIMIT")
        offset == Pos(toks, "OFFSET")
        upto == IF limit # 0 THEN limit - 1
                ELSE IF offset # 0 THEN offset - 1 ELSE Len(toks)
        stop == IF order # 0 THEN order - 1 ELSE upto
        terms == {i \in (order + 2)..upto : (i - order - 2) % 3 = 0}
        check == IF where = 0 THEN "" ELSE CheckStatement(toks, params, where + 1, stop)
    IN  IF toks[4] # TableName THEN [rows |-> <<>>, raised |-> "OperationalError"]
        ELSE IF offset # 0 /\ limit = 0 THEN [rows |-> <<>>, raised |-> "OperationalError"]
        ELSE IF check # "" THEN [rows |-> <<>>, raised |-> check]
        ELSE IF order # 0 /\ \E i \in terms : ~IsColumn(toks[i])
        THEN [rows |-> <<>>, raised |-> "OperationalError"]
        ELSE LET found == IF where = 0 THEN rows
                          ELSE SelectSeq(rows, LAMBDA r:
                                   EvalOr(toks, params, r, where + 1, stop))
                 hits == IF order = 0 THEN found
                         ELSE OrderRows(toks, order + 2, upto, found)
                 n == IF limit = 0 \/ ParseInt(toks[limit + 1]) < 0 THEN Len(hits)
                      ELSE ParseInt(toks[limit + 1])
                 m == IF offset = 0 \/ ParseInt(toks[offset + 1]) < 0 THEN 0
                      ELSE ParseInt(toks[offset + 1])
             IN  [rows |-> Slice(hits, m, n), raised |-> ""]

\* the assignments `col = ?` of a SET clause toks[lo..hi], "," between them
RECURSIVE Assign(_, _, _, _, _)
Assign(toks, params, row, lo, hi) ==
    IF lo > hi THEN row
    ELSE Assign(toks, params,
                [row EXCEPT ![toks[lo]] = Affinity(toks[lo], Bound(toks, params, lo + 2))],
                lo + 4, hi)

\* UPDATE <table> SET col = ? {, col = ?} WHERE <expr>: every row the
\* expression holds for gets the assignments; rowcount is their number.  An
\* empty SET clause is a syntax error, and two rows left with one id violate
\* the primary key.
SQLiteUpdate(toks, params, rows) ==
    LET set == Pos(toks, "SET")
        where == Pos(toks, "WHERE")
        cols == {toks[i] : i \in {j \in (set + 1)..(where - 1) : toks[j + 1] = "="}}
        check == CheckStatement(toks, params, where + 1, Len(toks))
    IN  IF toks[2] # TableName
        THEN [rows |-> rows, rowcount |-> 0, raised |-> "OperationalError"]
        ELSE IF where = set + 1
        THEN [rows |-> rows, rowcount |-> 0, raised |-> "OperationalError"]
        ELSE IF \E c \in cols : ~IsColumn(c)
        THEN [rows |-> rows, rowcount |-> 0, raised |-> "OperationalError"]
        ELSE IF check # "" THEN [rows |-> rows, rowcount |-> 0, raised |-> check]
        ELSE LET hit(r) == EvalOr(toks, params, r, where + 1, Len(toks))
                 new == [i \in 1..Len(rows) |->
                            IF hit(rows[i])
                            THEN Assign(toks, params, rows[i], set + 1, where - 1)
                            ELSE rows[i]]
             IN  IF \E i, j \in 1..Len(rows) : i # j /\ new[i].id = new[j].id
                 THEN [rows |-> rows, rowcount |-> 0, raised |-> "IntegrityError"]
                 ELSE [rows |-> new,
                       rowcount |-> Cardinality({i \in 1..Len(rows) : hit(rows[i])}),
                       raised |-> ""]

\* DELETE FROM <table> WHERE <expr>
SQLiteDelete(toks, params, rows) ==
    LET where == Pos(toks, "WHERE")
        check == CheckStatement(toks, params, where + 1, Len(toks))
    IN  IF toks[3] # TableName
        THEN [rows |-> rows, rowcount |-> 0, raised |-> "OperationalError"]
        ELSE IF check # "" THEN [rows |-> rows, rowcount |-> 0, raised |-> check]
        ELSE LET hit(r) == EvalOr(toks, params, r, where + 1, Len(toks))
             IN  [rows |-> SelectSeq(rows, LAMBDA r: ~hit(r)),
                  rowcount |-> Cardinality({i \in 1..Len(rows) : hit(rows[i])}),
                  raised |-> ""]

\* the largest id in the table, 0 in an empty one
MaxId(rows) ==
    IF Len(rows) = 0 THEN 0
    ELSE CHOOSE n \in {rows[i].id.val : i \in 1..Len(rows)} :
             \A i \in 1..Len(rows) : rows[i].id.val <= n

\* INSERT INTO <table> (c1, c2, ...) VALUES (?, ?, ...): one new row at the
\* end; a column not named is NULL, and id (INTEGER PRIMARY KEY) not named
\* is one more than the largest id.  An empty column list is a syntax
\* error, an id the table already has violates the primary key.
SQLiteInsert(toks, params, rows) ==
    LET open == Pos(toks, "(")
        close == Pos(toks, ")")
        at == {i \in (open + 1)..(close - 1) : toks[i] # ","}
        named(c) == \E i \in at : toks[i] = c
        value(c) == Bound(toks, params,
                          Pos(toks, "VALUES") + 2 * Cardinality({i \in at : i <= Pos(toks, c)}))
        id == IF named("id") /\ value("id") # NoneV THEN Affinity("id", value("id"))
              ELSE IntV(MaxId(rows) + 1)
    IN  IF toks[3] # TableName THEN [rows |-> rows, raised |-> "OperationalError"]
        ELSE IF at = {} THEN [rows |-> rows, raised |-> "OperationalError"]
        ELSE IF \E i \in at : ~IsColumn(toks[i])
        THEN [rows |-> rows, raised |-> "OperationalError"]
        ELSE IF Cardinality({j \in 1..Len(toks) : toks[j] = "?"}) # Len(params)
        THEN [rows |-> rows, raised |-> "ProgrammingError"]
        ELSE IF \E i \in 1..Len(rows) : rows[i].id = id
        THEN [rows |-> rows, raised |-> "IntegrityError"]
        ELSE [rows |-> Append(rows,
                          [c \in {Columns[i] : i \in 1..Len(Columns)} |->
                              IF c = "id" THEN id
                              ELSE IF named(c) THEN Affinity(c, value(c)) ELSE NoneV]),
              raised |-> ""]

\* ------------------------------------------------------- the SQLite plugin

\* dict.popitem(): the dict without its last item, whatever the key.
PopItem(payload, key) == SubSeq(payload, 1, Len(payload) - 1)

\* dict.pop(key): the dict without the item
Pop(payload, key) == SelectSeq(payload, LAMBDA item: item.name # key)

\* the values bound by insert: tuple(data.payload.values())
InsertValues(payload) == [i \in 1..Len(payload) |-> payload[i].value]

\* SQLiteDataSource.insert(conn, data): the table afterwards, the payload of
\* the spec afterwards (the pop is made on the spec's own dict), and the
\* value returned
SQLiteDataSourceInsert(c, rows, spec) ==
    IF ~\E i \in 1..Len(spec.payload) : spec.payload[i].name = "__table__"
    THEN [rows |-> rows, payload |-> spec.payload, ret |-> 0, raised |-> "KeyError"]
    ELSE LET table == (CHOOSE item \in {spec.payload[i] : i \in 1..Len(spec.payload)} :
                           item.name = "__table__").value.val
             payload == Pop(spec.payload, "__table__")
             keys == Join([i \in 1..Len(payload) |-> <<payload[i].name>>], ",")
             placeholders == Join([i \in 1..Len(payload) |-> <<"?">>], ",")
             r == SQLiteInsert(<<"INSERT", "INTO", table, "(">> \o keys
                                  \o <<")", "VALUES", "(">> \o placeholders \o <<")">>,
                               InsertValues(payload), rows)
         IN  [rows |-> r.rows, payload |-> payload,
              ret |-> IF r.raised = "" THEN 1 ELSE 0, raised |-> r.raised]

\* [f"{o.field} {'ASC' if o.ascending else 'DESC'}" for o in query.order_by],
\* joined by ", "
OrderParts(order_by) ==
    Join([i \in 1..Len(order_by) |->
             <<order_by[i].field, IF order_by[i].ascending THEN "ASC" ELSE "DESC">>], ",")

\* SQLiteDataSource.read: the statement text it builds
ReadStatement(c, query) ==
    LET w == IF query.filter = NoneV
             THEN [clause |-> <<>>, params |-> <<>>, raised |-> ""]
             ELSE SQLiteBuildWhere(query.filter)
    IN  [toks |-> <<"SELECT", "*", "FROM", CurrentTable(c)>>
                  \o (IF query.filter = NoneV THEN <<>> ELSE <<"WHERE">> \o w.clause)
                  \o (IF Truthy(query.order_by)
                      THEN <<"ORDER", "BY">> \o OrderParts(query.order_by.val) ELSE <<>>)
                  \o (IF Truthy(query.limit) THEN <<"LIMIT", ToString(query.limit.val)>>
                      ELSE <<>>)
                  \o (IF Truthy(query.offset) THEN <<"OFFSET", ToString(query.offset.val)>>
                      ELSE <<>>),
         params |-> w.params, raised |-> w.raised]


\* PRAGMA table_info(<table>): one row (cid, name, type, notnull,
\* dflt_value, pk) per column, in schema order; no row for a table the
\* database does not have
PragmaTableInfo(table) ==
    IF table # TableName THEN <<>>
    ELSE [i \in 1..Len(Columns) |->
             <<IntV(i - 1), TextV(Columns[i]), TextV(ColumnTypes[i]), IntV(0), NoneV,
               IntV(IF Columns[i] = "id" THEN 1 ELSE 0)>>]

\* cur.description after SELECT *: one 7-tuple per column of the table, in
\* schema order, the name first and None in the other places
Description ==
    [i \in 1..Len(Columns) |-> <<TextV(Columns[i]), NoneV, NoneV, NoneV, NoneV, NoneV, NoneV>>]

\* A fallback that labels the columns by their type.
TableInfoType(row) == row[3].val

\* row[1] of a table_info row
TableInfoName(row) == row[2].val

\* SQLiteDataSource.read(conn, query): the statement executed and the
\* DataFrame's rows and columns: from cur.description when there are rows,
\* from PRAGMA table_info when there are none.
SQLiteRead(c, rows, query) ==
    LET st == ReadStatement(c, query)
        res == SQLiteSelect(st.toks, st.params, rows)
        info == PragmaTableInfo(CurrentTable(c))
    IN  IF st.raised # ""
        THEN [rows |-> <<>>, columns |-> <<>>, raised |-> st.raised, statement |-> <<>>]
        ELSE IF res.raised # ""
        THEN [rows |-> <<>>, columns |-> <<>>, raised |-> res.raised, statement |-> st.toks]
        ELSE [rows |-> res.rows,
              columns |-> IF Len(res.rows) > 0
                          THEN [i \in 1..Len(Description) |-> Description[i][1].val]
                          ELSE [i \in 1..Len(info) |-> TableInfoName(info[i])],
              raised |-> "", statement |-> st.toks]

\* An update that binds the WHERE parameters before the payload values.
UpdateValuesWhereFirst(payload_values, where_params) ==
    where_params \o payload_values

\* values = list(spec.payload.values()) + params
UpdateValues(payload_values, where_params) ==
    payload_values \o where_params

\* SQLiteDataSource.update(conn, spec): the table afterwards and cur.rowcount
SQLiteDataSourceUpdate(c, rows, spec) ==
    LET w == SQLiteBuildWhere(spec.filters)
        set_clause == Join([i \in 1..Len(spec.payload) |->
                               <<spec.payload[i].name, "=", "?">>], ",")
        values == UpdateValues([i \in 1..Len(spec.payload) |-> spec.payload[i].value],
                               w.params)
        statement == <<"UPDATE", CurrentTable(c), "SET">> \o set_clause
                         \o <<"WHERE">> \o w.clause
        r == SQLiteUpdate(statement, values, rows)
    IN  IF w.raised # ""
        THEN [rows |-> rows, rowcount |-> 0, raised |-> w.raised, statement |-> <<>>]
        ELSE [rows |-> r.rows, rowcount |-> r.rowcount, raised |-> r.raised,
              statement |-> statement]

\* SQLiteDataSource.delete(conn, spec)
SQLiteDataSourceDelete(c, rows, spec) ==
    LET w == SQLiteBuildWhere(spec.filters)
        statement == <<"DELETE", "FROM", CurrentTable(c), "WHERE">> \o w.clause
        r == SQLiteDelete(statement, w.params, rows)
    IN  IF w.raised # ""
        THEN [rows |-> rows, rowcount |-> 0, raised |-> w.raised, statement |-> <<>>]
        ELSE [rows |-> r.rows, rowcount |-> r.rowcount, raised |-> r.raised,
              statement |-> statement]

\* --------------------------------------------------- the PostgreSQL plugin
\* sqlalchemy's text(sql) with a params dict: every ":name" in the text is
\* bound to params[name].  The statements the plugin builds are those of the
\* SQLite plugin with named placeholders, so the bound statement is
\* evaluated as above, with PostgreSQL's two differences: OFFSET needs no
\* LIMIT, and an empty IN list is a syntax error.

\* the positions of the named placeholders params can bind
Named(toks, params) ==
    {i \in 1..Len(toks) : \E k \in 1..Len(params) : toks[i] = ":" \o params[k].name}

\* params[name] for the placeholder token tok
Lookup(params, tok) ==
    (CHOOSE item \in {params[k] : k \in 1..Len(params)} : tok = ":" \o item.name).value

\* the statement with "?" for each named placeholder, and the values in
\* placeholder order
Bind(toks, params) ==
    LET at == Named(toks, params)
        upto(i) == Cardinality({j \in at : j <= i})
    IN  [toks |-> [i \in 1..Len(toks) |-> IF i \in at THEN "?" ELSE toks[i]],
         params |-> [k \in 1..Cardinality(at) |->
                        Lookup(params, toks[CHOOSE i \in at : upto(i) = k])]]

\* `IN ()` somewhere in the statement
EmptyIn(toks) ==
    \E i \in 2..(Len(toks) - 1) : toks[i - 1] = "IN" /\ toks[i] = "(" /\ toks[i + 1] = ")"

\* OFFSET m alone is OFFSET m after no limit
WithLimit(toks) ==
    LET offset == Pos(toks, "OFFSET")
    IN  IF offset # 0 /\ Pos(toks, "LIMIT") = 0
        THEN SubSeq(toks, 1, offset - 1) \o <<"LIMIT", "-1">> \o SubSeq(toks, offset, Len(toks))
        ELSE toks

\* PostgreSQLDataSource.read(conn, query): result.keys() labels the
\* DataFrame, with rows or without
PostgreSQLRead(c, rows, query) ==
    LET w == IF query.filter = NoneV
             THEN [clause |-> <<>>, params |-> <<>>, raised |-> ""]
             ELSE PostgreSQLBuildWhere(query.filter, <<>>, "p")
        statement == <<"SELECT", "*", "FROM", CurrentTable(c)>>
                     \o (IF query.filter = NoneV THEN <<>> ELSE <<"WHERE">> \o w.clause)
                     \o (IF Truthy(query.order_by)
                         THEN <<"ORDER", "BY">> \o OrderParts(query.order_by.val) ELSE <<>>)
                     \o (IF Truthy(query.limit) THEN <<"LIMIT", ToString(query.limit.val)>>
                         ELSE <<>>)
                     \o (IF Truthy(query.offset) THEN <<"OFFSET", ToString(query.offset.val)>>
                         ELSE <<>>)
        b == Bind(statement, w.params)
        res == SQLiteSelect(WithLimit(b.toks), b.params, rows)
    IN  IF w.raised # ""
        THEN [rows |-> <<>>, columns |-> <<>>, raised |-> w.raised, statement |-> <<>>]
        ELSE IF EmptyIn(statement)
        THEN [rows |-> <<>>, columns |-> <<>>, raised |-> "ProgrammingError",
              statement |-> statement]
        ELSE IF res.raised # ""
        THEN [rows |-> <<>>, columns |-> <<>>, raised |-> "ProgrammingError",
              statement |-> statement]
        ELSE [rows |-> res.rows,
              columns |-> [i \in 1..Len(Description) |-> Description[i][1].val],
              raised |-> "", statement |-> statement]

\* PostgreSQLDataSource.insert(conn, data)
PostgreSQLDataSourceInsert(c, rows, spec) ==
    IF ~\E i \in 1..Len(spec.payload) : spec.payload[i].name = "__table__"
    THEN [rows |-> rows, payload |-> spec.payload, ret |-> 0, raised |-> "KeyError"]
    ELSE LET table == (CHOOSE item \in {spec.payload[i] : i \in 1..Len(spec.payload)} :
                           item.name = "__table__").value.val
             payload == Pop(spec.payload, "__table__")
             keys == Join([i \in 1..Len(payload) |-> <<payload[i].name>>], ",")
             placeholders == Join([i \in 1..Len(payload) |-> <<":" \o payload[i].name>>], ",")
             b == Bind(<<"INSERT", "INTO", table, "(">> \o keys
                          \o <<")", "VALUES", "(">> \o placeholders \o <<")">>,
                       payload)
             r == SQLiteInsert(b.toks, b.params, rows)
         IN  [rows |-> r.rows, payload |-> payload,
              ret |-> IF r.raised = "" THEN 1 ELSE 0,
              raised |-> IF r.raised = "OperationalError" THEN "ProgrammingError"
                         ELSE r.raised]

\* PostgreSQLDataSource.update(conn, spec): the SET placeholders are named
\* after the columns, and the statement is run with {**spec.payload, **params}
PostgreSQLDataSourceUpdate(c, rows, spec) ==
    LET w == PostgreSQLBuildWhere(spec.filters, <<>>, "p")
        set_clause == Join([i \in 1..Len(spec.payload) |->
                               <<spec.payload[i].name, "=", ":" \o spec.payload[i].name>>], ",")
        statement == <<"UPDATE", CurrentTable(c), "SET">> \o set_clause
                         \o <<"WHERE">> \o w.clause
        b == Bind(statement, Merge(spec.payload, w.params))
        r == SQLiteUpdate(b.toks, b.params, rows)
    IN  IF w.raised # ""
        THEN [rows |-> rows, rowcount |-> 0, raised |-> w.raised, statement |-> <<>>]
        ELSE IF EmptyIn(statement) \/ r.raised # ""
        THEN [rows |-> rows, rowcount |-> 0, raised |-> "ProgrammingError",
              statement |-> statement]
        ELSE [rows |-> r.rows, rowcount |-> r.rowcount, raised |-> "",
              statement |-> statement]

\* PostgreSQLDataSource.delete(conn, spec)
PostgreSQLDataSourceDelete(c, rows, spec) ==
    LET w == PostgreSQLBuildWhere(spec.filters, <<>>, "p")
        statement == <<"DELETE", "FROM", CurrentTable(c), "WHERE">> \o w.clause
        b == Bind(statement, w.params)
        r == SQLiteDelete(b.toks, b.params, rows)
    IN  IF w.raised # ""
        THEN [rows |-> rows, rowcount |-> 0, raised |-> w.raised, statement |-> <<>>]
        ELSE IF EmptyIn(statement) \/ r.raised # ""
        THEN [rows |-> rows, rowcount |-> 0, raised |-> "ProgrammingError",
              statement |-> statement]
        ELSE [rows |-> r.rows, rowcount |-> r.rowcount, raised |-> "",
              statement |-> statement]

\* ------------------------------------------------ the plugin of a connection

\* plugin.read(conn, query), for the plugin that made the connection
PluginRead(c, rows, query) ==
    IF c.plugin = "sqlite" THEN SQLiteRead(c, rows, query) ELSE PostgreSQLRead(c, rows, query)

PluginInsert(c, rows, spec) ==
    IF c.plugin = "sqlite" THEN SQLiteDataSourceInsert(c, rows, spec)
    ELSE PostgreSQLDataSourceInsert(c, rows, spec)

PluginUpdate(c, rows, spec) ==
    IF c.plugin = "sqlite" THEN SQLiteDataSourceUpdate(c, rows, spec)
    ELSE PostgreSQLDataSourceUpdate(c, rows, spec)

PluginDelete(c, rows, spec) ==
    IF c.plugin = "sqlite" THEN SQLiteDataSourceDelete(c, rows, spec)
    ELSE PostgreSQLDataSourceDelete(c, rows, spec)

\* ------------------------------------------------------------- the inputs

Row(id, age, city) == [id |-> IntV(id), age |-> IntV(age), city |-> TextV(city)]

\* the tables read and written: the two scenario tables, and an empty one
Tables ==
    { <<Row(1, 25, "NYC"), Row(2, 30, "LA"), Row(3, 35, "CHI")>>,
      <<Row(1, 20, "NYC"), Row(2, 22, "LA"), Row(3, 30, "LA")>>,
      <<>> }

RECURSIVE SeqsUpTo(_, _)
SeqsUpTo(S, n) ==
    IF n = 0 THEN {<<>>}
    ELSE LET shorter == SeqsUpTo(S, n - 1)
         IN  shorter \cup {Append(q, x) : q \in {r \in shorter : Len(r) = n - 1}, x \in S}

InLists == SeqsUpTo({TextV("NYC"), TextV("LA")}, MaxIn)

\* keyword arguments of Condition(...): any operator string, a scalar or a
\* list as value (a str value under `in`, which Python would iterate by
\* character, is not among them)
ConditionArgs ==
    { a \in [field : {"age", "city"}, op : Ops \cup {"like"},
             value : {IntV(30), TextV("LA")} \cup {ListV(q) : q \in InLists}] :
        a.op = "in" => a.value.kind # "text" }

\* conditions used as the leaves of filter trees
Leaves ==
    { Condition("age", ">", IntV(25)), Condition("age", "<", IntV(25)),
      Condition("age", "!=", IntV(30)), Condition("city", "=", TextV("CHI")),
      Condition("city", "in", ListV(<<TextV("NYC"), TextV("LA")>>)),
      Condition("city", "in", ListV(<<>>)), Condition("zip", "=", IntV(30)) }

Pairs == { <<a, b>> : a \in Leaves, b \in Leaves }

\* groups of one or two leaves
FlatGroups ==
    { ConditionList(m, ListV(q)) :
        m \in {"AND", "OR"}, q \in {<<l>> : l \in Leaves} \cup Pairs }

\* a group of two leaves next to a leaf, under the other connective or the same
NestedGroups ==
    LET inner == { ConditionList(m, ListV(q)) :
                     m \in {"AND", "OR"},
                     q \in { <<Condition("age", ">", IntV(25)),
                               Condition("city", "=", TextV("CHI"))>>,
                             <<Condition("age", "<", IntV(25)),
                               Condition("city", "in", ListV(<<TextV("NYC"), TextV("LA")>>))>> } }
        leaf == { Condition("age", "!=", IntV(30)), Condition("city", "=", TextV("CHI")),
                  Condition("age", "<", IntV(25)) }
    IN  { ConditionList(m, ListV(q)) :
            m \in {"AND", "OR"},
            q \in {<<g, l>> : g \in inner, l \in leaf} \cup {<<l, g>> : g \in inner, l \in leaf} }

Filters == Leaves \cup FlatGroups \cup NestedGroups

\* keyword arguments of ConditionList(...)
ConditionListArgs ==
    [mode : {"AND", "OR", "XOR"},
     filters : {Missing, NoneV, ListV(<<>>), TupleV(<<Condition("age", ">", IntV(25))>>)}
               \cup {ListV(<<l>>) : l \in Leaves}
               \cup {ListV(<<f, Condition("age", ">", IntV(25))>>) : f \in FlatGroups}
               \cup {ListV(<<Condition("city", "=", TextV("CHI")), f>>) : f \in FlatGroups}
               \cup {ListV(<<g>>) : g \in NestedGroups}]

\* keyword arguments of QuerySpec(...)
\* order_by lists: one term, two terms, none, and a term on a column the
\* table does not have
OrderBys ==
    { ListV(<<OrderItem("age", FALSE)>>),
      ListV(<<OrderItem("city", TRUE), OrderItem("age", FALSE)>>),
      ListV(<<>>), ListV(<<OrderItem("zip", TRUE)>>) }

QuerySpecArgs ==
    [limit : {Missing, NoneV} \cup {IntV(n) : n \in -1..MaxLimit},
     offset : {Missing} \cup {IntV(n) : n \in -1..MaxLimit},
     filter : {NoneV} \cup Filters, order_by : {Missing}]
    \cup [limit : {Missing, IntV(1), IntV(MaxLimit)}, offset : {Missing, IntV(1)},
          filter : {NoneV, Condition("age", ">", IntV(25)),
                    Condition("city", "in", ListV(<<TextV("NYC"), TextV("LA")>>))},
          order_by : OrderBys]

Item(name, value) == [name |-> name, value |-> value]

\* payload dicts
Payloads ==
    { <<Item("city", TextV("Young"))>>, <<Item("age", IntV(30))>>,
      <<Item("age", IntV(25)), Item("city", TextV("LA"))>>, <<>> }

\* payload dicts of insert: with and without an id, with an id the
\* scenario tables have, without the reserved key, with nothing else, for a
\* table the database does not have, and with the reserved key not first
InsertPayloads ==
    { <<Item("__table__", TextV(TableName)), Item("id", IntV(4)), Item("age", IntV(40)),
        Item("city", TextV("LA"))>>,
      <<Item("__table__", TextV(TableName)), Item("age", IntV(25)), Item("city", TextV("NYC"))>>,
      <<Item("__table__", TextV(TableName)), Item("id", IntV(2)), Item("age", IntV(30)),
        Item("city", TextV("LA"))>>,
      <<Item("age", IntV(25))>>,
      <<Item("__table__", TextV(TableName))>>,
      <<Item("__table__", TextV("other")), Item("age", IntV(25))>>,
      <<Item("id", IntV(4)), Item("__table__", TextV(TableName)), Item("city", TextV("CHI"))>> }

InsertSpecArgs == [payload : InsertPayloads]

UpdateSpecArgs == [filters : Filters, payload : Payloads]

DeleteSpecArgs == [filters : Filters]

\* a call about to be made: the class constructed and its arguments
NewCall(cls, args) ==
    [pc |-> "args", cls |-> cls, args |-> args, obj |-> NoneV, out |-> NoneV]

InitDatasource ==
    /\ row_lock = <<>>
    /\ lock_call = [u \in UserIds |-> IdleCall]
    /\ last = NoOp
    /\ permission = <<>>
    /\ storage_user = EmptySession
    /\ perm_last = NoPermOp
    /\ changelog = <<>>
    /\ audit_last = NoAuditOp
    /\ data \in Tables
    /\ conn = SQLiteConnect(BaseDataSourceConfig(TableName))
    /\ view = NoView
    /\ call \in {NewCall("Condition", a) : a \in ConditionArgs}
                \cup {NewCall("ConditionList", a) : a \in ConditionListArgs}
                \cup {NewCall("QuerySpec", a) : a \in QuerySpecArgs}
                \cup {NewCall("InsertSpec", a) : a \in InsertSpecArgs}
                \cup {NewCall("UpdateSpec", a) : a \in UpdateSpecArgs}
                \cup {NewCall("DeleteSpec", a) : a \in DeleteSpecArgs}

\* ------------------------------------------------------------- the calls

\* the constructor call cls(**args)
Construct(cls, args) ==
    CASE cls = "Condition"     -> Condition(args.field, args.op, args.value)
      [] cls = "ConditionList" -> ConditionList(args.mode, args.filters)
      [] cls = "QuerySpec"     -> QuerySpec(args.limit, args.offset, args.filter, args.order_by)
      [] cls = "InsertSpec"    -> InsertSpec(args.payload)
      [] cls = "UpdateSpec"    -> UpdateSpec(args.filters, args.payload)
      [] cls = "DeleteSpec"    -> DeleteSpec(args.filters)

\* The object is constructed: validation runs here, before any plugin sees
\* the request; a ValidationError ends the call.
New ==
    /\ call.pc = "args"
    /\ LET obj == Construct(call.cls, call.args)
       IN  call' = [call EXCEPT !.obj = obj,
                                !.pc = IF obj = ValidationError THEN "raised" ELSE "built"]
    /\ UNCHANGED <<data, conn, lock_vars, perm_vars, audit_vars, view_vars>>

\* _build_where of both plugins on a filter (PostgreSQL: with the empty
\* params dict and the default prefix its read, update and delete pass)
BuildWhere ==
    /\ call.pc = "built"
    /\ call.cls \in {"Condition", "ConditionList"}
    /\ call' = [call EXCEPT !.pc = "done",
                            !.out = [sqlite |-> SQLiteBuildWhere(call.obj),
                                     postgresql |-> PostgreSQLBuildWhere(call.obj, <<>>, "p")]]
    /\ UNCHANGED <<data, conn, lock_vars, perm_vars, audit_vars, view_vars>>

\* insert(conn, data): execute, commit, return 1; the pop is made on the
\* payload of the spec object passed in
Insert ==
    /\ call.pc = "built"
    /\ call.cls = "InsertSpec"
    /\ Len(data) < MaxData
    /\ LET r == PluginInsert(conn, data, call.obj)
       IN  /\ data' = r.rows
           /\ call' = [call EXCEPT !.pc = "done",
                                   !.obj = [call.obj EXCEPT !.payload = r.payload],
                                   !.out = [ret |-> r.ret, raised |-> r.raised]]
    /\ UNCHANGED <<conn, lock_vars, perm_vars, audit_vars, view_vars>>

\* read(conn, query)
Read ==
    /\ call.pc = "built"
    /\ call.cls = "QuerySpec"
    /\ call' = [call EXCEPT !.pc = "done", !.out = PluginRead(conn, data, call.obj)]
    /\ UNCHANGED <<data, conn, lock_vars, perm_vars, audit_vars, view_vars>>

\* update(conn, spec): execute, commit, return cur.rowcount
Update ==
    /\ call.pc = "built"
    /\ call.cls = "UpdateSpec"
    /\ LET r == PluginUpdate(conn, data, call.obj)
       IN  /\ data' = r.rows
           /\ call' = [call EXCEPT !.pc = "done",
                                   !.out = [rowcount |-> r.rowcount, raised |-> r.raised,
                                            statement |-> r.statement]]
    /\ UNCHANGED <<conn, lock_vars, perm_vars, audit_vars, view_vars>>

\* delete(conn, spec)
Delete ==
    /\ call.pc = "built"
    /\ call.cls = "DeleteSpec"
    /\ LET r == PluginDelete(conn, data, call.obj)
       IN  /\ data' = r.rows
           /\ call' = [call EXCEPT !.pc = "done",
                                   !.out = [rowcount |-> r.rowcount, raised |-> r.raised,
                                            statement |-> r.statement]]
    /\ UNCHANGED <<conn, lock_vars, perm_vars, audit_vars, view_vars>>

NextDatasource ==
    \/ New
    \/ BuildWhere
    \/ Insert
    \/ Read
    \/ Update
    \/ Delete

SpecDatasource == InitDatasource /\ [][NextDatasource]_vars

\* ------------------------------------------------- calls on one connection
\* A caller opens a connection and makes one call after the other on it.

\* the configs a caller connects with
Configs == {BaseDataSourceConfig(TableName), BaseDataSourceConfig("data")}

\* plugin.connect(config)
OpenConnection(plugin, config) ==
    /\ conn = NoConn
    /\ conn' = Connect(plugin, config)
    /\ UNCHANGED <<data, call, lock_vars, perm_vars, audit_vars, view_vars>>

\* `conn._current_table = "test_table"`, which the callers of the
\* PostgreSQL plugin do after connect
SetCurrentTable ==
    /\ conn # NoConn
    /\ conn.plugin = "postgresql"
    /\ conn.attrs._current_table = Missing
    /\ conn' = [conn EXCEPT !.attrs._current_table = TextV(TableName)]
    /\ UNCHANGED <<data, call, lock_vars, perm_vars, audit_vars, view_vars>>

ById == Condition("id", "=", IntV(4))

\* the requests made on the connection
Requests ==
    {NewCall("InsertSpec", [payload |-> q]) :
        q \in { <<Item("__table__", TextV(TableName)), Item("id", IntV(4)),
                  Item("age", IntV(40)), Item("city", TextV("LA"))>>,
                <<Item("__table__", TextV(TableName)), Item("age", IntV(22)),
                  Item("city", TextV("NYC"))>> }}
    \cup {NewCall("QuerySpec", [limit |-> Missing, offset |-> Missing, filter |-> f,
                                   order_by |-> Missing]) :
             f \in {NoneV, ById, Condition("age", "<", IntV(25)),
                     Condition("age", ">", IntV(100))}}
    \cup {NewCall("UpdateSpec", a) :
             a \in { [filters |-> ById, payload |-> <<Item("city", TextV("Young"))>>],
                     [filters |-> Condition("age", "<", IntV(25)),
                      payload |-> <<Item("city", TextV("Young"))>>] }}
    \cup {NewCall("DeleteSpec", [filters |-> f]) :
             f \in {ById, Condition("age", "<", IntV(25))}}

\* the caller builds the arguments of the next call
Request(c) ==
    /\ conn # NoConn
    /\ call.pc \in {"none", "done", "raised"}
    /\ call' = c
    /\ UNCHANGED <<data, conn, lock_vars, perm_vars, audit_vars, view_vars>>

\* the caller passes the spec object of the last call to the plugin again
CallAgain ==
    /\ call.pc = "done"
    /\ call.cls = "InsertSpec"
    /\ call' = [call EXCEPT !.pc = "built"]
    /\ UNCHANGED <<data, conn, lock_vars, perm_vars, audit_vars, view_vars>>

InitCrud ==
    /\ row_lock = <<>>
    /\ lock_call = [u \in UserIds |-> IdleCall]
    /\ last = NoOp
    /\ permission = <<>>
    /\ storage_user = EmptySession
    /\ perm_last = NoPermOp
    /\ changelog = <<>>
    /\ audit_last = NoAuditOp
    /\ data \in Tables
    /\ call = NoCall
    /\ conn = NoConn
    /\ view = NoView

NextCrud ==
    \/ \E plugin \in {"sqlite", "postgresql"}, config \in Configs :
          OpenConnection(plugin, config)
    \/ SetCurrentTable
    \/ \E c \in Requests : Request(c)
    \/ New
    \/ Insert
    \/ Read
    \/ Update
    \/ Delete
    \/ CallAgain

SpecCrud == InitCrud /\ [][NextCrud]_vars

\* ============================================================ the table view

\* the registered table the page is opened on; its table_meta row names
\* the external table
ViewTable == 1

\* table_view up to create_grid: the early returns (no session, no read
\* permission, no columns from get_table_data), then can_edit, evaluated
\* once and closed over by handle_cell_edit and by the Add Row dialog.  An
\* exception on the way is caught by the function's `except Exception`.
RenderResult(session, store, rows, table_id) ==
    LET read == HasPermissionResult(session, store, table_id, "read")
        write == HasPermissionResult(session, store, table_id, "write")
    IN  IF session.keys = <<>> \/ read.raised # "" \/ read.ret = 0 THEN NoView
        ELSE IF Len(rows) = 0 \/ write.raised # "" THEN NoView
        ELSE [pc |-> "rendered", table_id |-> table_id,
              can_edit |-> PyOr(write.ret, IF session.role = "admin" THEN 1 ELSE 0) # 0,
              handler |-> "", event |-> <<>>, steps |-> <<>>, ret |-> "", raised |-> ""]

Render(table_id) ==
    /\ view' = RenderResult(storage_user, permission, data, table_id)
    /\ UNCHANGED <<lock_vars, perm_vars, audit_vars, ds_vars>>

\* a cellValueChanged event: e.args['data'][pk_col], e.args['colId'],
\* e.args['oldValue'], e.args['newValue']
CellEdit(row_pk, colId, oldValue, newValue) ==
    [row_pk |-> row_pk, colId |-> colId, oldValue |-> oldValue, newValue |-> newValue]

\* str(row_data[pk_col]), as the UPDATE is given it
Str(n) == TextV(ToString(n))

\* one row of table changelog, as log_change of the page writes it
PageChangelogEntry(table_id, e, modified_by) ==
    [table_id |-> table_id, row_pk |-> e.row_pk, column_name |-> e.colId,
     old_value |-> e.oldValue, new_value |-> e.newValue, modified_by |-> modified_by]

\* UPDATE {real_table_name} SET {column} = :new_value WHERE {pk_col} = :pk_value
CellUpdate(rows, e) ==
    LET b == Bind(<<"UPDATE", TableName, "SET", e.colId, "=", ":new_value",
                    "WHERE", "id", "=", ":pk_value">>,
                  <<Item("new_value", TextV(e.newValue)), Item("pk_value", Str(e.row_pk))>>)
    IN  SQLiteUpdate(b.toks, b.params, rows)

\* handle_cell_edit, from the event to its return or to the exception that
\* ends it: the calls it makes, in order, with the stores as the last call
\* reached leaves them.  No call is inside a try, so whatever raises ends
\* the handler there.
HandleCellEditResult(v, session, locks, rows, log, e) ==
    LET t == v.table_id
        existing == FetchOne(SelectLocks(locks, t, e.row_pk))
        locked == InsertOrReplace(locks, [table_id |-> t, row_pk |-> e.row_pk,
                                          locked_by |-> session.id])
        upd == CellUpdate(rows, e)
        same == [locks |-> locks, rows |-> rows, log |-> log]
    IN  IF ~v.can_edit
        THEN same @@ [steps |-> <<>>, ret |-> "No write permission", raised |-> ""]
        ELSE IF ~HasKey(session, "id")
        THEN same @@ [steps |-> <<"lock_row">>, ret |-> "", raised |-> "KeyError"]
        ELSE IF LockedBySomeoneElse(existing, session.id)
        THEN same @@ [steps |-> <<"lock_row">>, ret |-> "Row is locked by another user",
                      raised |-> ""]
        ELSE IF upd.raised # ""
        THEN [locks |-> locked, rows |-> rows, log |-> log,
              steps |-> <<"lock_row", "update">>, ret |-> "", raised |-> upd.raised]
        ELSE [locks |-> DeleteLocks(locked, t, e.row_pk, session.id),
              rows |-> upd.rows,
              log |-> Append(log, PageChangelogEntry(t, e, session.id)),
              steps |-> <<"lock_row", "update", "log_change", "unlock_row">>,
              ret |-> "Cell updated successfully", raised |-> ""]

\* the grid registers the handler only `if can_edit`
HandleCellEdit(e) ==
    /\ view.pc = "rendered"
    /\ view.can_edit
    /\ Len(row_lock) + PendingWrites < MaxRows
    /\ Len(changelog) < MaxLog
    /\ LET r == HandleCellEditResult(view, storage_user, row_lock, data, changelog, e)
       IN  /\ row_lock' = r.locks
           /\ data' = r.rows
           /\ changelog' = r.log
           /\ view' = [view EXCEPT !.handler = "handle_cell_edit", !.event = <<e>>,
                                   !.steps = r.steps, !.ret = r.ret, !.raised = r.raised]
    /\ UNCHANGED <<lock_call, last, perm_vars, audit_last, call, conn>>

\* the values of the Add Row dialog's inputs, one per column but the
\* primary key
RowInputs(age, city) == <<Item("age", TextV(age)), Item("city", TextV(city))>>

\* INSERT INTO {real_table_name} ({col_names}) VALUES ({placeholders})
RowInsert(rows, values) ==
    LET b == Bind(<<"INSERT", "INTO", TableName, "(">>
                      \o Join([i \in 1..Len(values) |-> <<values[i].name>>], ",")
                      \o <<")", "VALUES", "(">>
                      \o Join([i \in 1..Len(values) |-> <<":" \o values[i].name>>], ",")
                      \o <<")">>,
                  values)
    IN  SQLiteInsert(b.toks, b.params, rows)

\* save_row: the INSERT and its commit, the notification, the dialog closed
\* and the page loaded again.  The dialog exists only `if can_edit`.
SaveRow(values) ==
    /\ view.pc = "rendered"
    /\ view.can_edit
    /\ Len(data) < MaxData
    /\ LET r == RowInsert(data, values)
       IN  /\ data' = r.rows
           /\ view' = [view EXCEPT !.handler = "save_row", !.event = <<values>>,
                                   !.steps = <<"insert">>,
                                   !.ret = IF r.raised = "" THEN "Row added successfully"
                                           ELSE "",
                                   !.raised = r.raised]
    /\ UNCHANGED <<lock_vars, perm_vars, audit_vars, call, conn>>

\* the events of the grid: an edit of city in row 1, and an edit of its id
\* to the id of row 2 (every column of the grid is editable)
CellEdits == {CellEdit(1, "city", "NYC", "Young"), CellEdit(1, "id", "1", "2")}

\* what the dialog is saved with
RowInputsSet == {RowInputs("3", "LA")}

\* the user whose grants change while the page is open, and the user of
\* another browser session who may hold the lock of row 1
Grantee == 2
OtherUser == 3

InitView ==
    /\ row_lock \in {<<>>, <<[table_id |-> ViewTable, row_pk |-> 1, locked_by |-> OtherUser]>>}
    /\ lock_call = [u \in UserIds |-> IdleCall]
    /\ last = NoOp
    /\ permission = <<>>
    /\ storage_user = EmptySession
    /\ perm_last = NoPermOp
    /\ changelog = <<>>
    /\ audit_last = NoAuditOp
    /\ data = <<Row(1, 25, "NYC"), Row(2, 30, "LA"), Row(3, 35, "CHI")>>
    /\ call = NoCall
    /\ conn = NoConn
    /\ view = NoView

NextView ==
    \/ \E u \in {1, Grantee} : LoginUser(u)
    \/ LogoutUser
    \/ \E l \in {"read", "write"} : GrantPermission(ViewTable, Grantee, l)
    \/ RevokePermission(ViewTable, Grantee)
    \/ Render(ViewTable)
    \/ \E e \in CellEdits : HandleCellEdit(e)
    \/ \E values \in RowInputsSet : SaveRow(values)

SpecView == InitView /\ [][NextView]_vars

\* ===================================================== datasource properties

\* the call has been through its constructor
Constructed(cls) == call.pc \in {"built", "raised", "done"} /\ call.cls = cls

\* C15: ConditionList(mode, filters) with `filters` empty or missing always
\* fails validation, and with a list of one condition (and a valid mode) it
\* succeeds, giving the group of that one condition.
C15_EmptyGroupRejected ==
    Constructed("ConditionList") =>
        /\ call.args.filters \in {Missing, NoneV, ListV(<<>>)}
              => call.obj = ValidationError
        /\ (/\ call.args.filters.kind = "list"
            /\ Len(call.args.filters.val) = 1
            /\ call.args.mode \in {"AND", "OR"})
              => call.obj = [type |-> "ConditionList", mode |-> call.args.mode,
                             filters |-> call.args.filters.val]

\* ConditionList(mode='OR', filters=[]) has raised ValidationError
C15_EmptyListRaised ==
    /\ call.pc = "raised" /\ call.cls = "ConditionList"
    /\ call.args.mode = "OR" /\ call.args.filters = ListV(<<>>)
    /\ call.obj = ValidationError

\* the limit and offset a QuerySpec call asks for, defaults filled in
AskedLimit == IF call.args.limit = Missing THEN NoneV ELSE call.args.limit
AskedOffset == IF call.args.offset = Missing THEN IntV(0) ELSE call.args.offset

\* C16: QuerySpec construction fails exactly when limit < 1 or offset < 0
\* (limit None or >= 1 with offset >= 0 is accepted), so the QuerySpec a
\* plugin's read receives has limit None or >= 1 and offset >= 0.
C16_LimitOffsetValidated ==
    Constructed("QuerySpec") =>
        /\ call.obj = ValidationError
              <=> \/ AskedLimit.kind = "int" /\ AskedLimit.val < 1
                  \/ AskedOffset.val < 0
        /\ call.pc = "done"
              => /\ call.obj.limit = NoneV \/ call.obj.limit.val >= 1
                 /\ call.obj.offset.val >= 0

\* QuerySpec(limit=1, offset=0) was accepted and read one row with it
C16_LimitOneAccepted ==
    /\ call.pc = "done" /\ call.cls = "QuerySpec"
    /\ call.args.limit = IntV(1) /\ call.args.offset = IntV(0)
    /\ call.out.raised = "" /\ Len(call.out.rows) = 1

\* C17: a Condition that passes construction has, with op 'in', a non-empty
\* sequence as value and, with any other operator, a scalar.
C17_ValueInvariant ==
    (call.pc \in {"built", "done"} /\ call.cls = "Condition") =>
        IF call.obj.op = "in"
        THEN Iterable(call.obj.value) /\ Len(call.obj.value.val) >= 1
        ELSE call.obj.value.kind \in {"int", "text"}

\* the positions of the placeholders in the clause `field IN ( ... )`
InPlaceholders(clause) == {i \in 4..(Len(clause) - 1) : clause[i] # ","}

\* the k-th smallest element of a set of positions
RECURSIVE Nth(_, _)
Nth(S, k) ==
    LET least == CHOOSE i \in S : \A j \in S : i <= j
    IN  IF k = 1 THEN least ELSE Nth(S \ {least}, k - 1)

\* C18: for a Condition with op 'in' and a value list of length N,
\* _build_where of the SQLite plugin gives `field IN (...)` with N "?"
\* placeholders and the N values as parameters in order; that of the
\* PostgreSQL plugin gives N placeholders of N different names, the k-th
\* being the name the k-th value is bound to.
C18_InPlaceholders ==
    (/\ call.pc = "done" /\ call.cls = "Condition"
     /\ call.obj.op = "in" /\ Iterable(call.obj.value))
    => LET values == call.obj.value.val
           N == Len(values)
           lite == call.out.sqlite
           pg == call.out.postgresql
           shape(c) == /\ Len(c) >= 4
                       /\ SubSeq(c, 1, 3) = <<call.obj.field, "IN", "(">>
                       /\ c[Len(c)] = ")"
       IN  /\ lite.raised = "" /\ shape(lite.clause)
           /\ Cardinality(InPlaceholders(lite.clause)) = N
           /\ \A i \in InPlaceholders(lite.clause) : lite.clause[i] = "?"
           /\ lite.params = values
           /\ pg.raised = "" /\ shape(pg.clause)
           /\ Cardinality(InPlaceholders(pg.clause)) = N
           /\ Len(pg.params) = N
           /\ \A k \in 1..N :
                 /\ pg.params[k].value = values[k]
                 /\ pg.clause[Nth(InPlaceholders(pg.clause), k)] = ":" \o pg.params[k].name
                 /\ \A j \in 1..N : j # k => pg.params[j].name # pg.params[k].name

\* an `in` list of three values, two of them equal, has been rendered by
\* both plugins
C18_ThreeValuesRendered ==
    /\ call.pc = "done" /\ call.cls = "Condition" /\ call.obj.op = "in"
    /\ call.obj.value = ListV(<<TextV("LA"), TextV("NYC"), TextV("LA")>>)
    /\ call.out.sqlite.clause = <<call.obj.field, "IN", "(", "?", ",", "?", ",", "?", ")">>
    /\ Len(call.out.postgresql.params) = 3

\* the columns a filter names
RECURSIVE Fields(_)
Fields(node) ==
    IF node.type = "Condition" THEN {node.field}
    ELSE UNION {Fields(node.filters[i]) : i \in 1..Len(node.filters)}

\* whether a cell value stands in relation op to the condition's value
Holds(op, cell, value) ==
    CASE op = "in" -> \E i \in 1..Len(value.val) : value.val[i] = cell
      [] op = "="  -> cell = value
      [] op = "!=" -> cell # value
      [] OTHER     ->
           LET lt(a, b) == IF a.kind = "int" THEN a.val < b.val
                           ELSE Rank(a.val) < Rank(b.val)
           IN  CASE op = "<"  -> lt(cell, value)
                 [] op = "<=" -> lt(cell, value) \/ cell = value
                 [] op = ">"  -> lt(value, cell)
                 [] op = ">=" -> lt(value, cell) \/ cell = value

\* whether a row satisfies a condition tree: an AND group when all its
\* children do, an OR group when at least one does
RECURSIVE Satisfies(_, _)
Satisfies(row, node) ==
    IF node.type = "Condition" THEN Holds(node.op, row[node.field], node.value)
    ELSE IF node.mode = "AND"
    THEN \A i \in 1..Len(node.filters) : Satisfies(row, node.filters[i])
    ELSE \E i \in 1..Len(node.filters) : Satisfies(row, node.filters[i])

Matching(rows, node) == SelectSeq(rows, LAMBDA r: Satisfies(r, node))

PayloadNames(payload) == {payload[i].name : i \in 1..Len(payload)}

\* the positions of the rows a filter matches
MatchingAt(rows, node) == {i \in 1..Len(rows) : Satisfies(rows[i], node)}

TableKey(payload) ==
    IF \E i \in 1..Len(payload) : payload[i].name = "__table__"
    THEN (CHOOSE item \in {payload[i] : i \in 1..Len(payload)} :
              item.name = "__table__").value.val
    ELSE ""

\* what read(conn, QuerySpec(filter=f)) returns on connection c
ReadBack(c, rows, f) == PluginRead(c, rows, QuerySpec(Missing, Missing, f, Missing))

\* an insert payload for the table of the connection: the reserved key,
\* then columns of the table, and no id the table already has
Insertable(c, rows, payload) ==
    /\ TableKey(payload) = CurrentTable(c)
    /\ CurrentTable(c) = TableName
    /\ Len(payload) > 1
    /\ \A i \in 1..Len(payload) :
          /\ payload[i].name # "__table__" => IsColumn(payload[i].name)
          /\ payload[i].name = "id" =>
                 \A j \in 1..Len(rows) : rows[j].id # payload[i].value

\* C21: on one connection whose table the reserved key names, insert of a
\* row succeeds, returns 1, and a read filtered on the new row's primary key
\* returns that row, with the values of the payload; after a successful
\* update of a column the filter does not test, a read with the same filter
\* returns the rows counted, each with the new value; after a successful
\* delete, a read with the same filter returns zero rows.
C21_CrudRoundTrip ==
    [][/\ (Insert /\ Insertable(conn, data, call.obj.payload))
          => LET new == data'[Len(data')]
                 back == ReadBack(conn', data', Condition("id", "=", new.id))
                 payload == call'.obj.payload
             IN  /\ call'.out = [ret |-> 1, raised |-> ""]
                 /\ Len(data') = Len(data) + 1
                 /\ SubSeq(data', 1, Len(data)) = data
                 /\ \A k \in 1..Len(payload) : new[payload[k].name] = payload[k].value
                 /\ back.raised = ""
                 /\ back.rows = <<new>>
       /\ (/\ Update
           /\ call'.out.raised = ""
           /\ PayloadNames(call.obj.payload) \cap Fields(call.obj.filters) = {})
          => LET back == ReadBack(conn', data', call.obj.filters)
                 payload == call.obj.payload
             IN  /\ back.raised = ""
                 /\ Len(back.rows) = call'.out.rowcount
                 /\ \A i \in 1..Len(back.rows), k \in 1..Len(payload) :
                       back.rows[i][payload[k].name] = payload[k].value
       /\ (Delete /\ call'.out.raised = "")
          => LET back == ReadBack(conn', data', call.obj.filters)
             IN  /\ back.raised = ""
                 /\ back.rows = <<>>
                 /\ back.columns = Columns]_vars

\* the row inserted with id 4 has been updated and read back by its id
C21_InsertedUpdatedRead ==
    /\ call.pc = "done" /\ call.cls = "QuerySpec"
    /\ call.obj.filter = ById
    /\ call.out.rows = <<Row(4, 40, "Young")>>

\* =========================================================== column labels

\* C22: a read that succeeds returns a result labelled with the columns of
\* the table in schema order, whether it holds rows or not: the labels of an
\* empty result are those of a non-empty one.
C22_EmptyResultKeepsColumns ==
    (call.pc = "done" /\ call.cls = "QuerySpec" /\ call.out.raised = "")
    => /\ call.out.columns = Columns
       /\ \A i \in 1..Len(call.out.rows) :
             DOMAIN call.out.rows[i] = {Columns[k] : k \in 1..Len(Columns)}

\* the SQLite plugin has read zero rows from a table that has rows, and the
\* result carries the three column labels
C22_NoRowsThreeLabels ==
    /\ call.pc = "done" /\ call.cls = "QuerySpec"
    /\ conn.plugin = "sqlite"
    /\ Len(data) > 0
    /\ call.out.raised = "" /\ call.out.rows = <<>>
    /\ Len(call.out.columns) = 3

\* ====================================================== table view properties

\* a handler of the page has run in this step
CellEditStep == \E e \in CellEdits : HandleCellEdit(e)
SaveRowStep == \E values \in RowInputsSet : SaveRow(values)

\* the handler's statement on the external table ran and was committed
WroteExternal ==
    /\ view'.raised = ""
    /\ \E i \in 1..Len(view'.steps) : view'.steps[i] \in {"update", "insert"}

\* C23: every successful write to the external table made through the table
\* view, a cell edit or a new row, adds one changelog entry recording the
\* table and the session user.
C23_EveryViewWriteLogged ==
    [][((CellEditStep \/ SaveRowStep) /\ WroteExternal)
       => /\ Len(changelog') = Len(changelog) + 1
          /\ changelog'[Len(changelog')].table_id = view.table_id
          /\ changelog'[Len(changelog')].modified_by = storage_user.id]_vars

\* what has_permission(table_id, 'write') or role == 'admin' answers now
MayWriteNow ==
    LET r == HasPermissionResult(storage_user, permission, view.table_id, "write")
    IN  r.raised = "" /\ r.ret # 0

\* C24: handle_cell_edit applies an update to the external table only if
\* the session user has write permission on the table, or is admin, at the
\* moment of the edit.
C24_EditNeedsPermissionNow ==
    [][(CellEditStep /\ WroteExternal) => MayWriteNow]_vars

\* C25: a handle_cell_edit that acquires the row lock runs lock_row, the
\* update, log_change and unlock_row in this order, and when it ends the
\* session user holds no lock on the row, whether a step raised or not.
C25_LockReleasedAtEnd ==
    [][\A e \in CellEdits :
          (HandleCellEdit(e) /\ Len(view'.steps) >= 2)
          => /\ view'.steps = <<"lock_row", "update", "log_change", "unlock_row">>
             /\ ~HoldsLock(row_lock', storage_user.id, view.table_id, e.row_pk)]_vars

\* ===================================================== parameter naming

\* the values of the leaves of a tree, in the order of the walk: one per
\* scalar condition, one per element of an `in` list
RECURSIVE LeafValues(_)
LeafValues(node) ==
    IF node.type = "Condition"
    THEN IF node.op = "in" THEN node.value.val ELSE <<node.value>>
    ELSE IF Len(node.filters) = 0 THEN <<>>
    ELSE LeafValues(node.filters[1])
             \o LeafValues([node EXCEPT !.filters = Tail(node.filters)])

\* the depth of a tree: 0 for a condition
RECURSIVE Height(_)
Height(node) ==
    IF node.type = "Condition" THEN 0
    ELSE LET h == {Height(node.filters[i]) : i \in 1..Len(node.filters)}
         IN  1 + (CHOOSE n \in h \cup {0} : \A k \in h : k <= n)

BuiltWhere ==
    /\ call.pc = "done" /\ call.cls \in {"Condition", "ConditionList"}
    /\ call.out.postgresql.raised = ""

\* C26: the params dict that PostgreSQL's _build_where returns has one entry
\* per leaf value, under names that are all different, and the placeholders
\* of the clause, in order, are bound to the leaf values in tree order.
C26_ParamNamesNeverCollide ==
    BuiltWhere
    => LET pg == call.out.postgresql
           leaves == LeafValues(call.obj)
       IN  /\ Len(pg.params) = Len(leaves)
           /\ \A i, j \in 1..Len(pg.params) :
                 pg.params[i].name = pg.params[j].name => i = j
           /\ Cardinality(Named(pg.clause, pg.params)) = Len(leaves)
           /\ Bind(pg.clause, pg.params).params = leaves

\* a tree three levels deep with an `in` list among its four leaf values
C26_NestedWithInList ==
    /\ BuiltWhere
    /\ Height(call.obj) = 3
    /\ Len(call.out.postgresql.params) = 4
    /\ \E i \in 1..4 : call.out.postgresql.params[i].name = "p001_1_1"

\* ==================================================== one walk, two syntaxes

\* C27: the two clause builders fail on the same trees, and where they
\* succeed the PostgreSQL clause with "?" for each named placeholder is the
\* SQLite clause, the PostgreSQL values in placeholder order are the SQLite
\* parameters, and the clause of a group is its children's clauses, each in
\* parentheses, joined by the group's connective.
C27_SameWalkOtherPlaceholders ==
    (call.pc = "done" /\ call.cls \in {"Condition", "ConditionList"})
    => LET lite == call.out.sqlite
           pg == call.out.postgresql
           positional == Bind(pg.clause, pg.params)
       IN  /\ (lite.raised = "") = (pg.raised = "")
           /\ lite.raised = ""
              => /\ positional.toks = lite.clause
                 /\ positional.params = lite.params
                 /\ \A i \in 1..Len(lite.clause) : lite.clause[i] \in
                       {"?", "(", ")", ",", "IN", "AND", "OR", "age", "city", "zip"}
                           \cup Ops \cup {"like"}
                 /\ call.cls = "ConditionList"
                    => lite.clause =
                          Join([i \in 1..Len(call.obj.filters) |->
                                   <<"(">> \o SQLiteBuildWhere(call.obj.filters[i]).clause
                                           \o <<")">>],
                               IF call.obj.mode = "AND" THEN "AND" ELSE "OR")

\* (age < 25 OR city in [NYC, LA]) AND age > 25 has been rendered by both
C27_GroupAndLeafRendered ==
    /\ call.pc = "done" /\ call.cls = "ConditionList"
    /\ call.out.sqlite.params = <<IntV(25), TextV("NYC"), TextV("LA"), IntV(25)>>
    /\ call.out.sqlite.clause =
          <<"(", "(", "age", "<", "?", ")", "OR", "(", "city", "IN", "(", "?", ",", "?", ")",
            ")", ")", "AND", "(", "age", ">", "?", ")">>
    /\ call.out.postgresql.clause[5] = ":p00_0"
    /\ call.out.postgresql.clause[22] = ":p1_3"

\* ============================================================ current table

\* the table a statement names: SELECT * FROM t, UPDATE t, DELETE FROM t
StatementTable(toks) ==
    IF toks[1] = "SELECT" THEN toks[4]
    ELSE IF toks[1] = "UPDATE" THEN toks[2]
    ELSE toks[3]

\* C28: on a connection as connect(config) returned it, whichever the
\* plugin, read, update and delete send a statement on config.table_name.
C28_ConnectCarriesTable ==
    [][((Read \/ Update \/ Delete) /\ conn = Connect(conn.plugin, conn.config))
       => StatementTable(call'.out.statement) = conn.config.table_name]_vars

\* ========================================================== specs as values

\* C29: insert leaves the spec object it is given as it was, and does what
\* an insert of a spec just constructed from the same arguments does.
C29_InsertLeavesSpecUnchanged ==
    [][Insert
       => /\ call'.obj = call.obj
          /\ LET fresh == PluginInsert(conn, data, InsertSpec(call.args.payload))
             IN  /\ data' = fresh.rows
                 /\ call'.out = [ret |-> fresh.ret, raised |-> fresh.raised]]_vars

\* ============================================================ clause order

\* the clauses of a read statement are in the order SELECT, WHERE, ORDER BY,
\* LIMIT, OFFSET; LIMIT is there exactly when the spec sets a limit, and
\* OFFSET only after a LIMIT
WellFormedRead(toks, query) ==
    LET at == <<Pos(toks, "SELECT"), Pos(toks, "WHERE"), Pos(toks, "ORDER"),
                Pos(toks, "LIMIT"), Pos(toks, "OFFSET")>>
    IN  /\ at[1] = 1
        /\ \A i, j \in 1..5 : (i < j /\ at[i] # 0 /\ at[j] # 0) => at[i] < at[j]
        /\ (at[2] # 0) = (query.filter # NoneV)
        /\ (at[3] # 0) = Truthy(query.order_by)
        /\ (at[4] # 0) = (query.limit # NoneV)
        /\ at[5] # 0 => at[4] # 0

\* C30: for every valid QuerySpec the statement read builds, in the SQLite
\* plugin and in the PostgreSQL plugin, is well formed in this sense.
C30_ReadStatementWellFormed ==
    (call.pc = "done" /\ call.cls = "QuerySpec" /\ call.out.statement # <<>>)
    => /\ WellFormedRead(call.out.statement, call.obj)
       /\ WellFormedRead(PostgreSQLRead(PostgreSQLConnect(conn.config), data,
                                        call.obj).statement, call.obj)

====
